---- MODULE Spec2Model ----
(***************************************************************************)
(* A model of the batch orchestration and resilience engine of             *)
(* google-cloud-tts-batch-processor:                                       *)
(*   - CircuitBreaker / ErrorHandler.reset_circuit_breaker                 *)
(*     (src/src/core/error_handler.py), specification SpecCB;              *)
(*   - retry_with_backoff (same file), specification SpecRetry;            *)
(*   - VoiceRotator, AudioCache and                                        *)
(*     AdvancedTTSProcessor.synthesize_sentence_ultra                      *)
(*     (src/src/core/tts_batch_processor.py), specification SpecPipe;      *)
(*   - CheckpointManager, IntelligentBatcher and                           *)
(*     AdvancedTTSProcessor.process_batch_ultra / _signal_handler          *)
(*     (same file), specification SpecRun;                                 *)
(*   - the checkpoint file, the batch planner, the voice rotator and the   *)
(*     worker pool on their own: SpecCkpt, SpecPlan, SpecRot, SpecPool;    *)
(*   - synthesize_sentence_ultra with a failing cache: SpecPipeFaults;     *)
(*   - synthesize_sentence_ultra over the cache an earlier run left:       *)
(*     SpecPipeWarm;                                                       *)
(*   - ErrorHandler.record_error and safe_tts_call: SpecStats, SpecSafe;   *)
(*   - ErrorHandler.get_circuit_breaker: SpecReg.                          *)
(* Each part has its own specification; the variables of the other parts   *)
(* stay at their initial values under it.                                  *)
(***************************************************************************)
EXTENDS Integers, Sequences, FiniteSets, TLC

(***************************************************************************)
(* Bounds of the model.                                                    *)
(***************************************************************************)
NumCallers == 2      \* threads calling CircuitBreaker.call concurrently
MaxTime == 2         \* the clock time.time() runs over 0..MaxTime
MaxThreshold == 2    \* failure_threshold ranges over 1..MaxThreshold
MaxTimeout == 1      \* recovery_timeout ranges over 0..MaxTimeout
MaxAttempts == 3     \* RetryConfig.max_attempts ranges over 0..MaxAttempts
NumItems == 2        \* work items handed to synthesize_sentence_ultra
NumVoices == 2       \* len(available_voices)
MaxRetry == 2        \* config.retry_attempts ranges over 1..MaxRetry
MaxWorkers == 2      \* config.max_workers
NumSentences == 3    \* len(sentences) of the input list of a run
MaxRuns == 2         \* runs of process_batch_ultra in one behaviour
MaxIndex == 2        \* indices and total_count handed to save_checkpoint
MaxLen == 3          \* len(sentences) of a list handed to the planner
MaxBatch == 2        \* config.batch_size ranges over 0..MaxBatch there
NumRotCallers == 3   \* threads calling get_next_voice once each
MaxConcurrent == 2   \* config.max_concurrent_requests ranges over 1..MaxConcurrent
NumRecorders == 2    \* threads calling record_error concurrently
MaxRecords == 102    \* record_error calls in one behaviour
MaxSafeCalls == 2    \* calls of safe_tts_call in one behaviour
NumGetters == 3      \* threads calling get_circuit_breaker

\* last_failure_time = None (error_handler.py:37)
None == -1

\* get_cached_audio returns None (tts_batch_processor.py:205); the absent
\* row of the audio_cache table
NoPath == 0

Callers == 1..NumCallers

VARIABLES
    \* ---- CircuitBreaker (error_handler.py:31-109)
    state,              \* self.state: "CLOSED" | "OPEN" | "HALF_OPEN"
    failure_count,      \* self.failure_count
    last_failure_time,  \* self.last_failure_time (None or a clock value)
    failure_threshold,  \* self.config.failure_threshold
    recovery_timeout,   \* self.config.recovery_timeout
    now,                \* time.time()
    pc,                 \* per caller: the line of CircuitBreaker.call it is at
    result,             \* per caller: how its last call ended
    admitted,           \* per caller: the state under which func was invoked
    fresh_open,         \* per caller: the check of line 52 was taken while
                        \* the breaker was OPEN and within recovery_timeout
    streak,             \* failed calls since the last success / reset
    \* ---- retry_with_backoff (error_handler.py:115-164)
    max_attempts,       \* config.max_attempts
    base_delay,         \* config.base_delay
    max_delay,          \* config.max_delay
    exponential_base,   \* config.exponential_base, a fraction <<num, den>>
    jitter,             \* config.jitter
    attempt,            \* the loop variable of line 137
    last_exception,     \* last_exception: the call that raised it, 0 = None
    r_pc,               \* the line the wrapper is at
    call_ok,            \* whether the call of line 139 returned
    calls,              \* calls of func made so far
    slept,              \* the delays passed to time.sleep, in order
    r_outcome,          \* "none" | "returned" | "raised" | "TypeError"
    raised_exc,         \* the call whose error reached the caller, 0 = none
    \* ---- synthesize_sentence_ultra and its collaborators
    \*      (tts_batch_processor.py:59-216, 403-488)
    sentences,          \* the text of each item, by index
    enable_caching,     \* config.enable_caching (self.cache is not None)
    voice_rotation_enabled, \* config.voice_rotation_enabled
    retry_attempts,     \* config.retry_attempts
    max_workers,        \* config.max_workers
    voice_cycle,        \* position of itertools.cycle(available_voices)
    current_voice_index, \* VoiceRotator.current_voice_index
    t_pc,               \* per item: where its task is
    current_voice,      \* per item: the local current_voice, 0 before line 407
    syn_attempt,        \* per item: the loop variable of line 431
    cached_file,        \* per item: what get_cached_audio returned
    cache_db,           \* the audio_cache table: key -> file_path or NoPath
    files,              \* the artifact files that exist, by item index
    outcome,            \* per item: how synthesize_sentence_ultra ended
    provider_calls,     \* per item: calls of client.synthesize_speech
    after_success,      \* per item: it was started after an item of the
                        \* same key had ended in success
    any_deleted,        \* an artifact was deleted from outside
    \* ---- process_batch_ultra, CheckpointManager, IntelligentBatcher
    \*      (tts_batch_processor.py:218-300, 343-348, 568-683)
    complexity,         \* _calculate_complexity_score of each sentence
    intelligent_batching, \* config.intelligent_batching (self.batcher)
    batch_size,         \* config.batch_size
    checkpoint_interval, \* config.checkpoint_interval
    checkpoint_file,    \* the checkpoint on storage: NoCheckpoint or
                        \* [processed_indices, total_count]
    processed_indices,  \* self.processed_indices
    o_pc,               \* where process_batch_ultra is
    batches,            \* the local batches
    batch_num,          \* the loop variable batch_num
    batch,              \* the local batch after the filter of line 628
    batch_results,      \* results of the batch not merged yet
    results_files,      \* results['files'], by index
    results_errors,     \* results['errors'], by index
    successful,         \* results['successful']
    failed,             \* results['failed']
    dispatch_count,     \* per index: times handed to the pool in this run
    runs,               \* runs started so far
    batches_done,       \* batches of this run processed and merged
    prev_end,           \* how the previous run ended
    prev_completed,     \* processed_indices when the previous run ended
    prev_batches,       \* batches_done when the previous run ended
    load_kind,          \* what line 575 decided in this run: "none" before
                        \* it, then "resumed" or "fresh"
    load_set,           \* the processed set taken from the checkpoint
    \* ---- CheckpointManager on its own (tts_batch_processor.py:218-250)
    ck_file,            \* the checkpoint file: whether it exists, its text
    ck_pc,              \* "idle" | "l232" (inside save_checkpoint) | "crashed"
    ck_arg,             \* the arguments of the save in progress
    ck_buffer,          \* text of json.dump that has not reached the file
    ck_before,          \* the file as it was when the save in progress began
    ck_ret,             \* how the last load_checkpoint ended
    ck_loaded,          \* what the last load_checkpoint returned
    ck_last,            \* the last operation on the file that ended
    \* ---- batch planning on its own (tts_batch_processor.py:252-300, 609-618)
    b_sentences,        \* the input list sentences
    b_max,              \* config.batch_size (IntelligentBatcher.max_batch_size)
    b_pc,               \* "input", then how the batches were made
    b_batches,          \* the batches: lists of (index, sentence)
    \* ---- VoiceRotator on its own (tts_batch_processor.py:59-133)
    rotation_enabled,   \* self.rotation_enabled
    cycle_pos,          \* calls of next(self.voice_cycle) made so far
    voice_index,        \* self.current_voice_index
    voice_lock,         \* self.voice_lock: 0 when free, else its holder
    v_pc,               \* per caller: the line of get_next_voice it is at
    v_voice,            \* per caller: the local voice / the value returned,
                        \* an index into available_voices, None before
    v_seen,             \* per caller: cycle_pos before its call of next()
    v_order,            \* per caller: its place in the order in which the
                        \* lock was acquired, 0 before
    acquired,           \* acquisitions of the lock so far
    \* ---- the worker pool of process_batch_ultra_async under the batch
    \*      loop of process_batch_ultra (tts_batch_processor.py:517-566,
    \*      623-650)
    executor_max_workers,    \* config.max_workers
    max_concurrent_requests, \* config.max_concurrent_requests
    planned,            \* the batches of the run, as lists of indices
    loop_num,           \* the loop variable batch_num of line 623
    main_pc,            \* where the main thread is
    task_pc,            \* per index: where its task is
    semaphore,          \* permits of the semaphore of line 522 not taken
    task_outcome,       \* per index: how synthesize_sentence_ultra ended
    task_results,       \* per index: the status of each result made for it
    pool_successful,    \* results['successful']
    pool_failed,        \* results['failed']
    \* ---- ErrorHandler.record_error (error_handler.py:182-203)
    error_stats,        \* self.error_stats: per error type its 'count' and
                        \* its 'errors'; a type not in the table has count 0
                        \* and no errors.  An entry of 'errors' is named by
                        \* the number of the record_error call that added it
    stats_lock,         \* error_handler.lock: 0 when free, else its holder
    rec_pc,             \* per thread: the line of record_error it is at
    rec_arg,            \* per thread: the argument error_type
    recorded,           \* per error type: record_error calls completed
    \* ---- safe_tts_call (error_handler.py:226-252), one caller
    s_calls,            \* calls of safe_tts_call started
    func_calls,         \* calls of the wrapped func within this call
    s_raised,           \* the error type each attempt of this call raised
                        \* ("none" for an attempt that returned)
    s_open_since,       \* last_failure_time at the start of this call if
                        \* the breaker was OPEN then, else None
    \* ---- ErrorHandler.get_circuit_breaker (error_handler.py:174-180) for
    \*      one name
    circuit_breakers,   \* self.circuit_breakers[name]: the instance stored,
                        \* None while the name is not in the dict
    g_pc,               \* per thread: the line of get_circuit_breaker it is at
    g_ret,              \* per thread: the instance its last call returned
    created             \* CircuitBreaker instances constructed so far; an
                        \* instance is named by its number

cbVars == <<state, failure_count, last_failure_time, failure_threshold,
            recovery_timeout, now, pc, result, admitted, fresh_open, streak>>

retryConfig == <<max_attempts, base_delay, max_delay, exponential_base, jitter>>
retryVars == <<retryConfig, attempt, last_exception, r_pc, call_ok, calls,
               slept, r_outcome, raised_exc>>

pipeConfig == <<sentences, enable_caching, voice_rotation_enabled,
                retry_attempts, max_workers>>
pipeVars == <<pipeConfig, voice_cycle, current_voice_index, t_pc, current_voice,
              syn_attempt, cached_file, cache_db, files, outcome,
              provider_calls, after_success, any_deleted>>

runConfig == <<complexity, intelligent_batching, batch_size, checkpoint_interval>>
runLocals == <<batches, batch_num, batch, batch_results>>
runResults == <<results_files, results_errors, successful, failed>>
runPrev == <<prev_end, prev_completed, prev_batches>>
runLoad == <<load_kind, load_set>>
runVars == <<runConfig, checkpoint_file, processed_indices, o_pc, runLocals,
             runResults, dispatch_count, runs, batches_done, runPrev, runLoad>>

ckptVars == <<ck_file, ck_pc, ck_arg, ck_buffer, ck_before, ck_ret, ck_loaded,
              ck_last>>

planVars == <<b_sentences, b_max, b_pc, b_batches>>

rotVars == <<rotation_enabled, cycle_pos, voice_index, voice_lock, v_pc,
             v_voice, v_seen, v_order, acquired>>

poolOut == <<task_outcome, task_results, pool_successful, pool_failed>>
poolVars == <<executor_max_workers, max_concurrent_requests, planned, loop_num,
              main_pc, task_pc, semaphore, poolOut>>

statsVars == <<error_stats, stats_lock, rec_pc, rec_arg, recorded>>

safeVars == <<s_calls, func_calls, s_raised, s_open_since>>

regVars == <<circuit_breakers, g_pc, g_ret, created>>

vars == <<cbVars, retryVars, pipeVars, runVars, ckptVars, planVars, rotVars,
          poolVars, statsVars, safeVars, regVars>>

\* what the actions of one part leave unchanged
cbOthers == <<retryVars, pipeVars, runVars, ckptVars, planVars, rotVars,
    poolVars, statsVars, safeVars, regVars>>
retryOthers == <<cbVars, pipeVars, runVars, ckptVars, planVars, rotVars,
    poolVars, statsVars, safeVars, regVars>>
pipeOthers == <<cbVars, retryVars, runVars, ckptVars, planVars, rotVars,
    poolVars, statsVars, safeVars, regVars>>
runOthers == <<cbVars, retryVars, pipeVars, ckptVars, planVars, rotVars,
    poolVars, statsVars, safeVars, regVars>>
ckptOthers == <<cbVars, retryVars, pipeVars, runVars, planVars, rotVars,
    poolVars, statsVars, safeVars, regVars>>
planOthers == <<cbVars, retryVars, pipeVars, runVars, ckptVars, rotVars,
    poolVars, statsVars, safeVars, regVars>>
rotOthers == <<cbVars, retryVars, pipeVars, runVars, ckptVars, planVars,
    poolVars, statsVars, safeVars, regVars>>
poolOthers == <<cbVars, retryVars, pipeVars, runVars, ckptVars, planVars,
    rotVars, statsVars, safeVars, regVars>>
statsOthers == <<cbVars, retryVars, pipeVars, runVars, ckptVars, planVars,
    rotVars, poolVars, safeVars, regVars>>
safeOthers == <<pipeVars, runVars, ckptVars, planVars, rotVars, poolVars,
    regVars>>
regOthers == <<cbVars, retryVars, pipeVars, runVars, ckptVars, planVars,
    rotVars, poolVars, statsVars, safeVars>>

(***************************************************************************)
(* CircuitBreaker                                                          *)
(*                                                                         *)
(* call() reads self.state (line 51) and self.last_failure_time (line 52)  *)
(* and writes self.state (line 53) without holding self.lock, so each of   *)
(* these is a step of its own.  _on_success, _on_failure and               *)
(* reset_circuit_breaker run under self.lock; the only unlocked write      *)
(* (line 53) commutes with them to one side or the other, so each locked   *)
(* section is one step.  func itself does not touch the breaker, so its    *)
(* return and the handler that follows it are one step.                    *)
(***************************************************************************)

\* line 52: time.time() - self.last_failure_time > self.config.recovery_timeout
TimeoutElapsedGE(t_now, lft) == t_now - lft >= recovery_timeout
TimeoutElapsed(t_now, lft) == t_now - lft > recovery_timeout

\* line 80: self.failure_count >= self.config.failure_threshold
ShouldOpenGT(count) == count > failure_threshold
ShouldOpen(count) == count >= failure_threshold

\* lines 69-70: HALF_OPEN becomes CLOSED on a success
SuccessStateKeep(st) == st
SuccessState(st) == IF st = "HALF_OPEN" THEN "CLOSED" ELSE st

\* lines 55-56: the rejected call raises CircuitBreakerOpenException and
\* writes nothing: failure_count and last_failure_time after it
OnRejectedCounted(count, lft, t_now) == <<count + 1, t_now>>
OnRejected(count, lft, t_now) == <<count, lft>>

\* CircuitBreaker.__init__ (lines 34-41), with a configuration
BreakerInit ==
    /\ state = "CLOSED"
    /\ failure_count = 0
    /\ last_failure_time = None
    /\ failure_threshold \in 1..MaxThreshold
    /\ recovery_timeout \in 0..MaxTimeout
    /\ now = 0
    /\ pc = [t \in Callers |-> "idle"]
    /\ result = [t \in Callers |-> "none"]
    /\ admitted = [t \in Callers |-> "none"]
    /\ fresh_open = [t \in Callers |-> FALSE]
    /\ streak = 0

cbConfig == <<failure_threshold, recovery_timeout>>
cbBreaker == <<state, failure_count, last_failure_time, streak>>

\* line 51: if self.state == CircuitState.OPEN
CallEnter(t) ==
    /\ pc[t] = "idle"
    /\ result' = [result EXCEPT ![t] = "none"]
    /\ fresh_open' = [fresh_open EXCEPT ![t] = FALSE]
    /\ IF state = "OPEN"
          THEN /\ pc' = [pc EXCEPT ![t] = "l52"]
               /\ admitted' = [admitted EXCEPT ![t] = "none"]
          ELSE /\ pc' = [pc EXCEPT ![t] = "l59"]
               /\ admitted' = [admitted EXCEPT ![t] = state]
    /\ UNCHANGED <<cbBreaker, cbConfig, now, cbOthers>>

\* lines 52, 55-56: the recovery check; raise CircuitBreakerOpenException.
\* After a concurrent reset last_failure_time is None and the subtraction
\* raises TypeError.
CheckTimeout(t) ==
    /\ pc[t] = "l52"
    /\ fresh_open' = [fresh_open EXCEPT ![t] =
                        /\ state = "OPEN"
                        /\ last_failure_time # None
                        /\ now - last_failure_time <= recovery_timeout]
    /\ IF last_failure_time = None
          THEN /\ pc' = [pc EXCEPT ![t] = "idle"]
               /\ result' = [result EXCEPT ![t] = "TypeError"]
               /\ UNCHANGED <<failure_count, last_failure_time>>
          ELSE IF TimeoutElapsed(now, last_failure_time)
                  THEN /\ pc' = [pc EXCEPT ![t] = "l53"]
                       /\ UNCHANGED <<result, failure_count, last_failure_time>>
                  ELSE /\ pc' = [pc EXCEPT ![t] = "idle"]
                       /\ result' = [result EXCEPT ![t] = "CircuitOpen"]
                       /\ failure_count' =
                             OnRejected(failure_count, last_failure_time, now)[1]
                       /\ last_failure_time' =
                             OnRejected(failure_count, last_failure_time, now)[2]
    /\ UNCHANGED <<state, streak, cbConfig, now, admitted, cbOthers>>

\* line 53: self.state = CircuitState.HALF_OPEN (no lock), then line 59
SetHalfOpen(t) ==
    /\ pc[t] = "l53"
    /\ state' = "HALF_OPEN"
    /\ pc' = [pc EXCEPT ![t] = "l59"]
    /\ admitted' = [admitted EXCEPT ![t] = "PROBE"]
    /\ UNCHANGED <<failure_count, last_failure_time, streak, cbConfig, now,
                   result, fresh_open, cbOthers>>

\* lines 59-61 and _on_success (66-72): func returns, the result is returned
FuncSucceeds(t) ==
    /\ pc[t] = "l59"
    /\ state' = SuccessState(state)
    /\ failure_count' = 0
    /\ streak' = 0
    /\ pc' = [pc EXCEPT ![t] = "idle"]
    /\ result' = [result EXCEPT ![t] = "returned"]
    /\ UNCHANGED <<last_failure_time, cbConfig, now, admitted, fresh_open,
                   cbOthers>>

\* lines 62-64 and _on_failure (74-82): func raises, the error is re-raised
FuncFails(t) ==
    /\ pc[t] = "l59"
    /\ failure_count' = failure_count + 1
    /\ streak' = streak + 1
    /\ last_failure_time' = now
    /\ state' = IF ShouldOpen(failure_count + 1) THEN "OPEN" ELSE state
    /\ pc' = [pc EXCEPT ![t] = "idle"]
    /\ result' = [result EXCEPT ![t] = "func_error"]
    /\ UNCHANGED <<cbConfig, now, admitted, fresh_open, cbOthers>>

\* ErrorHandler.reset_circuit_breaker (lines 214-221)
ResetBreaker ==
    /\ state # "CLOSED" \/ failure_count # 0 \/ last_failure_time # None
    /\ state' = "CLOSED"
    /\ failure_count' = 0
    /\ last_failure_time' = None
    /\ streak' = 0
    /\ UNCHANGED <<cbConfig, now, pc, result, admitted, fresh_open, cbOthers>>

\* the clock advances
Tick ==
    /\ now < MaxTime
    /\ now' = now + 1
    /\ UNCHANGED <<cbBreaker, cbConfig, pc, result, admitted, fresh_open,
                   cbOthers>>

NextCB ==
    \/ \E t \in Callers : CallEnter(t)
    \/ \E t \in Callers : CheckTimeout(t)
    \/ \E t \in Callers : SetHalfOpen(t)
    \/ \E t \in Callers : FuncSucceeds(t)
    \/ \E t \in Callers : FuncFails(t)
    \/ ResetBreaker
    \/ Tick


(***************************************************************************)
(* retry_with_backoff (error_handler.py:130-164)                           *)
(*                                                                         *)
(* Delays are exact fractions in the source's floats for the values used   *)
(* here: base_delay is a multiple of 16, exponential_base is num/den with  *)
(* den a power of 2, and the jitter factor 0.5 + random.random() * 0.5     *)
(* (a value of [0.5, 1.0)) is drawn from {1/2, 3/4}.                       *)
(***************************************************************************)
BaseDelays == {16, 32}
MaxDelays == {24, 64}
ExponentialBases == {<<1, 2>>, <<1, 1>>, <<2, 1>>}
JitterFactors == {<<1, 2>>, <<3, 4>>}

RECURSIVE Pow(_, _)
Pow(b, n) == IF n = 0 THEN 1 ELSE b * Pow(b, n - 1)

Min(a, b) == IF a <= b THEN a ELSE b

\* lines 148-151: min(base_delay * exponential_base ** attempt, max_delay)
BackoffDelayUncapped(a) ==
    (base_delay * Pow(exponential_base[1], a)) \div Pow(exponential_base[2], a)
BackoffDelay(a) ==
    Min((base_delay * Pow(exponential_base[1], a)) \div Pow(exponential_base[2], a),
        max_delay)

\* line 143: attempt == config.max_attempts - 1
IsFinalAttemptEarly(a) == a >= max_attempts - 2
IsFinalAttempt(a) == a = max_attempts - 1

\* the wrapper is entered with some RetryConfig
RetryInit ==
    /\ max_attempts \in 0..MaxAttempts
    /\ base_delay \in BaseDelays
    /\ max_delay \in MaxDelays
    /\ exponential_base \in ExponentialBases
    /\ jitter \in BOOLEAN
    /\ attempt = 0
    /\ last_exception = 0
    /\ r_pc = "l137"
    /\ call_ok = FALSE
    /\ calls = 0
    /\ slept = <<>>
    /\ r_outcome = "none"
    /\ raised_exc = 0

\* lines 137, 162: for attempt in range(config.max_attempts), and after the
\* loop raise last_exception (raise None is a TypeError)
LoopHead ==
    /\ r_pc = "l137"
    /\ IF attempt < max_attempts
          THEN /\ r_pc' = "l139"
               /\ UNCHANGED <<r_outcome, raised_exc>>
          ELSE /\ r_pc' = "done"
               /\ r_outcome' = IF last_exception = 0 THEN "TypeError" ELSE "raised"
               /\ raised_exc' = last_exception
    /\ UNCHANGED <<retryConfig, attempt, last_exception, call_ok, calls, slept,
                   retryOthers>>

\* line 139: func(*args, **kwargs) is called and returns or raises
CallFunc ==
    /\ r_pc = "l139"
    /\ calls' = calls + 1
    /\ call_ok' \in BOOLEAN
    /\ r_pc' = "l139done"
    /\ UNCHANGED <<retryConfig, attempt, last_exception, slept, r_outcome,
                   raised_exc, retryOthers>>

\* line 139: return
ReturnResult ==
    /\ r_pc = "l139done"
    /\ call_ok
    /\ r_pc' = "done"
    /\ r_outcome' = "returned"
    /\ UNCHANGED <<retryConfig, attempt, last_exception, call_ok, calls, slept,
                   raised_exc, retryOthers>>

\* lines 140-145: except Exception; the final attempt re-raises
HandleError ==
    /\ r_pc = "l139done"
    /\ ~call_ok
    /\ last_exception' = calls
    /\ IF IsFinalAttempt(attempt)
          THEN /\ r_pc' = "done"
               /\ r_outcome' = "raised"
               /\ raised_exc' = calls
          ELSE /\ r_pc' = "l148"
               /\ UNCHANGED <<r_outcome, raised_exc>>
    /\ UNCHANGED <<retryConfig, attempt, call_ok, calls, slept, retryOthers>>

\* lines 148-160: the delay, with jitter if enabled, then time.sleep(delay)
\* and the next iteration
Sleep ==
    /\ r_pc = "l148"
    /\ \E f \in (IF jitter THEN JitterFactors ELSE {<<1, 1>>}) :
          slept' = Append(slept, (BackoffDelay(attempt) * f[1]) \div f[2])
    /\ attempt' = attempt + 1
    /\ r_pc' = "l137"
    /\ UNCHANGED <<retryConfig, last_exception, call_ok, calls, r_outcome,
                   raised_exc, retryOthers>>

NextRetry ==
    \/ LoopHead
    \/ CallFunc
    \/ ReturnResult
    \/ HandleError
    \/ Sleep


(***************************************************************************)
(* VoiceRotator, AudioCache, synthesize_sentence_ultra                     *)
(* (tts_batch_processor.py:59-216, 403-488)                                *)
(*                                                                         *)
(* Each item is one task of the ThreadPoolExecutor.  The artifact of item  *)
(* i is the file output_dir/<safe filename of (i, text)>.<format>, named   *)
(* here by i.  audio_format and sample_rate are the same for every item,   *)
(* and no voice name holds a "|", so _get_sentence_hash (lines 179-182) is *)
(* one-to-one on (sentence, voice): a key is the pair <<text, voice>>.     *)
(* get_cached_audio runs its SELECT and its DELETE as two statements of a  *)
(* connection in autocommit mode, so other tasks can act between them.     *)
(***************************************************************************)
Items == 1..NumItems
Texts == {"a", "b"}
Voices == 1..NumVoices
Keys == Texts \X Voices
ProviderOutcomes == {"ok", "rate_limit", "google_error", "exception"}

\* lines 179-182: _get_sentence_hash of the item's text and voice
KeyOfVoiceOnly(i) == <<"a", current_voice[i]>>
KeyOf(i) == <<sentences[i], current_voice[i]>>

\* lines 116-117: next(self.voice_cycle) moves the cycle by one voice
AdvanceCycleTwice(pos) == ((pos + 1) % NumVoices) + 1
AdvanceCycle(pos) == (pos % NumVoices) + 1

\* lines 195-203: what get_cached_audio finds for a key
CacheLookupNoExistsCheck(k) ==
    IF cache_db[k] = NoPath THEN "miss" ELSE "hit"
CacheLookup(k) ==
    IF cache_db[k] = NoPath THEN "miss"
    ELSE IF cache_db[k] \in files THEN "hit" ELSE "stale"

\* lines 413-428: an item consults the cache only when caching is enabled
AfterVoiceNoCache(i) == "synth"
AfterVoice(i) == IF enable_caching THEN "lookup" ELSE "synth"

\* the input lists: tasks are interchangeable (nothing but the name of the
\* artifact depends on the index), so one list per multiset of texts
InputLists ==
    {l \in [Items -> Texts] :
        \A i \in Items : \A j \in Items : (i < j /\ l[i] = "b") => l[j] = "b"}

Active == {i \in Items : t_pc[i] \notin {"pending", "done"}}

\* AdvancedTTSProcessor.__init__ (lines 305-341) with a configuration, an
\* empty cache and output directory, and the items of a batch
PipeInit ==
    /\ sentences \in InputLists
    /\ enable_caching \in BOOLEAN
    /\ voice_rotation_enabled \in BOOLEAN
    /\ retry_attempts \in 1..MaxRetry
    /\ max_workers = MaxWorkers
    /\ voice_cycle = 1
    /\ current_voice_index = 0
    /\ t_pc = [i \in Items |-> "pending"]
    /\ current_voice = [i \in Items |-> 0]
    /\ syn_attempt = [i \in Items |-> 0]
    /\ cached_file = [i \in Items |-> NoPath]
    /\ cache_db = [k \in Keys |-> NoPath]
    /\ files = {}
    /\ outcome = [i \in Items |-> "none"]
    /\ provider_calls = [i \in Items |-> 0]
    /\ after_success = [i \in Items |-> FALSE]
    /\ any_deleted = FALSE

\* the voice that a run with rotation, its items taken one after the other
\* in the order of their indices, gives to item i
PriorVoice(i) == ((i - 1) % NumVoices) + 1

\* __init__ in a directory where an earlier process has run the same items
\* to the end, with caching and rotation and every item a success: the
\* artifacts are there under the same names (the name is made of the index
\* and the text, lines 360-401), and the cache holds for each key the
\* artifact of the first item that had it (later ones were hits)
PipeWarmInit ==
    /\ sentences \in InputLists
    /\ enable_caching = TRUE
    /\ voice_rotation_enabled \in BOOLEAN
    /\ retry_attempts \in 1..MaxRetry
    /\ max_workers = MaxWorkers
    /\ voice_cycle = 1
    /\ current_voice_index = 0
    /\ t_pc = [i \in Items |-> "pending"]
    /\ current_voice = [i \in Items |-> 0]
    /\ syn_attempt = [i \in Items |-> 0]
    /\ cached_file = [i \in Items |-> NoPath]
    /\ cache_db = [k \in Keys |->
          LET had == {i \in Items : <<sentences[i], PriorVoice(i)>> = k}
          IN  IF had = {} THEN NoPath
              ELSE CHOOSE i \in had : \A j \in had : i <= j]
    /\ files = Items
    /\ outcome = [i \in Items |-> "none"]
    /\ provider_calls = [i \in Items |-> 0]
    /\ after_success = [i \in Items |-> FALSE]
    /\ any_deleted = FALSE

\* a pool thread takes the task; line 407 and VoiceRotator.get_next_voice
\* (lines 111-119)
StartItem(i) ==
    /\ t_pc[i] = "pending"
    /\ Cardinality(Active) < max_workers
    /\ IF voice_rotation_enabled
          THEN /\ current_voice' = [current_voice EXCEPT ![i] = voice_cycle]
               /\ voice_cycle' = AdvanceCycle(voice_cycle)
               /\ current_voice_index' = (current_voice_index + 1) % NumVoices
          ELSE /\ current_voice' = [current_voice EXCEPT ![i] = 1]
               /\ UNCHANGED <<voice_cycle, current_voice_index>>
    /\ t_pc' = [t_pc EXCEPT ![i] = AfterVoice(i)]
    /\ after_success' = [after_success EXCEPT ![i] =
            \E j \in Items \ {i} :
                /\ outcome[j] \in {"hit", "generated"}
                /\ sentences[j] = sentences[i]
                /\ current_voice[j] = current_voice'[i]]
    /\ UNCHANGED <<pipeConfig, syn_attempt, cached_file, cache_db, files,
                   outcome, provider_calls, any_deleted, pipeOthers>>

\* get_cached_audio, lines 186-199: the SELECT and the test of the file
Lookup(i) ==
    /\ t_pc[i] = "lookup"
    /\ IF CacheLookup(KeyOf(i)) = "hit"
          THEN /\ cached_file' = [cached_file EXCEPT ![i] = cache_db[KeyOf(i)]]
               /\ t_pc' = [t_pc EXCEPT ![i] = "copy"]
          ELSE /\ cached_file' = [cached_file EXCEPT ![i] = NoPath]
               /\ t_pc' = [t_pc EXCEPT ![i] =
                     IF CacheLookup(KeyOf(i)) = "stale" THEN "stale" ELSE "synth"]
    /\ UNCHANGED <<pipeConfig, voice_cycle, current_voice_index, current_voice,
                   syn_attempt, cache_db, files, outcome, provider_calls,
                   after_success, any_deleted, pipeOthers>>

\* get_cached_audio, lines 200-205: DELETE the stale row, return None
StaleDelete(i) ==
    /\ t_pc[i] = "stale"
    /\ cache_db' = [cache_db EXCEPT ![KeyOf(i)] = NoPath]
    /\ t_pc' = [t_pc EXCEPT ![i] = "synth"]
    /\ UNCHANGED <<pipeConfig, voice_cycle, current_voice_index, current_voice,
                   syn_attempt, cached_file, files, outcome, provider_calls,
                   after_success, any_deleted, pipeOthers>>

\* lines 417-428: copy the cached file to the item's output path unless that
\* exists; shutil.copy2 of a file that is gone raises out of the task
CopyCached(i) ==
    /\ t_pc[i] = "copy"
    /\ t_pc' = [t_pc EXCEPT ![i] = "done"]
    /\ IF i \in files
          THEN /\ outcome' = [outcome EXCEPT ![i] = "hit"]
               /\ UNCHANGED files
          ELSE IF cached_file[i] \in files
                  THEN /\ outcome' = [outcome EXCEPT ![i] = "hit"]
                       /\ files' = files \cup {i}
                  ELSE /\ outcome' = [outcome EXCEPT ![i] = "raised"]
                       /\ UNCHANGED files
    /\ UNCHANGED <<pipeConfig, voice_cycle, current_voice_index, current_voice,
                   syn_attempt, cached_file, cache_db, provider_calls,
                   after_success, any_deleted, pipeOthers>>

\* lines 431-461 and 473-488: one iteration of the retry loop: the call of
\* client.synthesize_speech, the write of the audio file, or the handler of
\* the error; after the last iteration return None
Synthesize(i) ==
    /\ t_pc[i] = "synth"
    /\ IF syn_attempt[i] >= retry_attempts
          THEN /\ t_pc' = [t_pc EXCEPT ![i] = "done"]
               /\ outcome' = [outcome EXCEPT ![i] = "failed"]
               /\ UNCHANGED <<syn_attempt, files, provider_calls>>
          ELSE /\ provider_calls' = [provider_calls EXCEPT ![i] = @ + 1]
               /\ \E o \in ProviderOutcomes :
                    CASE o = "ok" ->
                           /\ files' = files \cup {i}
                           /\ t_pc' = [t_pc EXCEPT ![i] =
                                 IF enable_caching THEN "store" ELSE "done"]
                           /\ outcome' = [outcome EXCEPT ![i] =
                                 IF enable_caching THEN @ ELSE "generated"]
                           /\ UNCHANGED syn_attempt
                      [] o = "rate_limit" ->
                           /\ syn_attempt' = [syn_attempt EXCEPT ![i] = @ + 1]
                           /\ UNCHANGED <<t_pc, outcome, files>>
                      [] o = "google_error" ->
                           /\ t_pc' = [t_pc EXCEPT ![i] = "done"]
                           /\ outcome' = [outcome EXCEPT ![i] = "failed"]
                           /\ UNCHANGED <<syn_attempt, files>>
                      [] o = "exception" ->
                           /\ IF syn_attempt[i] < retry_attempts - 1
                                 THEN /\ syn_attempt' =
                                           [syn_attempt EXCEPT ![i] = @ + 1]
                                      /\ UNCHANGED <<t_pc, outcome>>
                                 ELSE /\ t_pc' = [t_pc EXCEPT ![i] = "done"]
                                      /\ outcome' = [outcome EXCEPT ![i] = "failed"]
                                      /\ UNCHANGED syn_attempt
                           /\ UNCHANGED files
    /\ UNCHANGED <<pipeConfig, voice_cycle, current_voice_index, current_voice,
                   cached_file, cache_db, after_success, any_deleted,
                   pipeOthers>>

\* lines 463-471 and cache_audio (207-216): INSERT OR REPLACE, return the path
Store(i) ==
    /\ t_pc[i] = "store"
    /\ cache_db' = [cache_db EXCEPT ![KeyOf(i)] = i]
    /\ t_pc' = [t_pc EXCEPT ![i] = "done"]
    /\ outcome' = [outcome EXCEPT ![i] = "generated"]
    /\ UNCHANGED <<pipeConfig, voice_cycle, current_voice_index, current_voice,
                   syn_attempt, cached_file, files, provider_calls,
                   after_success, any_deleted, pipeOthers>>

\* an artifact is deleted from outside (the external deletion of spec 4.2)
DeleteArtifact(f) ==
    /\ f \in files
    /\ files' = files \ {f}
    /\ any_deleted' = TRUE
    /\ UNCHANGED <<pipeConfig, voice_cycle, current_voice_index, t_pc,
                   current_voice, syn_attempt, cached_file, cache_db, outcome,
                   provider_calls, after_success, pipeOthers>>

NextPipe ==
    \/ \E i \in Items : StartItem(i)
    \/ \E i \in Items : Lookup(i)
    \/ \E i \in Items : StaleDelete(i)
    \/ \E i \in Items : CopyCached(i)
    \/ \E i \in Items : Synthesize(i)
    \/ \E i \in Items : Store(i)
    \/ \E f \in Items : DeleteArtifact(f)

\* get_cached_audio (lines 184-205) raises, e.g. sqlite3.OperationalError
\* from connect, SELECT or DELETE: the call of line 414 is in no try block,
\* so the exception leaves synthesize_sentence_ultra before any provider call
LookupRaises(i) ==
    /\ t_pc[i] \in {"lookup", "stale"}
    /\ t_pc' = [t_pc EXCEPT ![i] = "done"]
    /\ outcome' = [outcome EXCEPT ![i] = "raised"]
    /\ UNCHANGED <<pipeConfig, voice_cycle, current_voice_index, current_voice,
                   syn_attempt, cached_file, cache_db, files, provider_calls,
                   after_success, any_deleted, pipeOthers>>

\* cache_audio (lines 207-216) raises at line 465, inside the try of line
\* 432: the handler of lines 481-486 takes it for a failed attempt, sleeps
\* and runs the loop again, or returns None after the last attempt
StoreRaises(i) ==
    /\ t_pc[i] = "store"
    /\ IF syn_attempt[i] < retry_attempts - 1
          THEN /\ syn_attempt' = [syn_attempt EXCEPT ![i] = @ + 1]
               /\ t_pc' = [t_pc EXCEPT ![i] = "synth"]
               /\ UNCHANGED outcome
          ELSE /\ t_pc' = [t_pc EXCEPT ![i] = "done"]
               /\ outcome' = [outcome EXCEPT ![i] = "failed"]
               /\ UNCHANGED syn_attempt
    /\ UNCHANGED <<pipeConfig, voice_cycle, current_voice_index, current_voice,
                   cached_file, cache_db, files, provider_calls, after_success,
                   any_deleted, pipeOthers>>

\* the steps of the items when the cache database can fail
NextPipeFaults ==
    \/ NextPipe
    \/ \E i \in Items : LookupRaises(i)
    \/ \E i \in Items : StoreRaises(i)

(***************************************************************************)
(* IntelligentBatcher (tts_batch_processor.py:252-300)                     *)
(***************************************************************************)
Indices == 1..NumSentences
Scores == {40, 70}

\* line 278: the running score sum above which a batch is closed
ScoreThreshold == 100

\* line 270: sentence_scores.sort(key = score, reverse = True), a stable
\* sort: the next element is the highest score, the lowest index among equals
RECURSIVE SortByScore(_, _)
SortByScore(sc, rest) ==
    IF rest = {} THEN <<>>
    ELSE LET top == CHOOSE i \in rest :
                       \A j \in rest : sc[i] > sc[j] \/ (sc[i] = sc[j] /\ i <= j)
         IN  <<top>> \o SortByScore(sc, rest \ {top})

\* lines 277-288: the greedy packing of the sorted items
RECURSIVE Pack(_, _, _, _, _, _)
Pack(sc, order, size, done, current, current_score) ==
    IF order = <<>>
       THEN IF current # <<>> THEN Append(done, current) ELSE done
       ELSE IF Len(current) >= size \/ current_score > ScoreThreshold
               THEN Pack(sc, Tail(order), size,
                         IF current # <<>> THEN Append(done, current) ELSE done,
                         <<Head(order)>>, sc[Head(order)])
               ELSE Pack(sc, Tail(order), size, done,
                         Append(current, Head(order)),
                         current_score + sc[Head(order)])

\* create_optimized_batches (lines 258-290), items by index
create_optimized_batches(sc, size) ==
    Pack(sc, SortByScore(sc, DOMAIN sc), size, <<>>, <<>>, 0)

\* lines 613-618: simple batching, batch_size items of the list at a time
RECURSIVE SimpleBatches(_, _, _)
SimpleBatches(from, n, size) ==
    IF from > n THEN <<>>
    ELSE <<[j \in 1..Min(size, n - from + 1) |-> from + j - 1]>>
            \o SimpleBatches(from + size, n, size)

Range(seq) == {seq[j] : j \in 1..Len(seq)}

(***************************************************************************)
(* CheckpointManager and process_batch_ultra                               *)
(* (tts_batch_processor.py:218-250, 343-348, 568-683)                      *)
(*                                                                         *)
(* The processor is built with resume_from_checkpoint = True (the default  *)
(* of line 151), so self.checkpoint_manager exists.  A run works on the    *)
(* same input list of NumSentences sentences every time.  The call of      *)
(* process_batch_ultra_async is one step that yields a result, success or  *)
(* failed, for each item of the batch; the results are merged one by one.  *)
(* SIGINT/SIGTERM run _signal_handler on the main thread between any two   *)
(* steps of a run; a crash ends the process with nothing saved.            *)
(***************************************************************************)
NoCheckpoint == [processed_indices |-> {}, total_count |-> 0]

\* a checkpoint left in the working directory by a run over another, longer
\* input list (lines 346-347 and 654 store len(sentences) of that run)
ForeignCheckpoint == [processed_indices |-> {1}, total_count |-> NumSentences + 1]
BatchSizes == {1, 2}
CheckpointIntervals == {1, 2}

\* load_checkpoint (lines 234-245): an absent file reads as (set(), 0)
load_checkpoint == checkpoint_file

\* line 575: the checkpoint is used when it is not empty and its
\* total_count is the length of the input
CheckpointUsable(ck) ==
    ck.processed_indices # {} /\ ck.total_count = NumSentences

\* line 628: the items of a batch not in self.processed_indices
FilterBatchKeepAll(b, done) == b
RECURSIVE FilterBatch(_, _)
FilterBatch(b, done) ==
    IF b = <<>> THEN <<>>
    ELSE IF Head(b) \in done THEN FilterBatch(Tail(b), done)
         ELSE <<Head(b)>> \o FilterBatch(Tail(b), done)

\* line 653: batch_num % self.config.checkpoint_interval == 0
CheckpointDueNever(n) == FALSE
CheckpointDue(n) == n % checkpoint_interval = 0

\* clear_checkpoint (lines 247-250): the file is removed if it exists
clear_checkpoint_kept(f) == f
clear_checkpoint(f) == NoCheckpoint

\* lines 346-347: what _signal_handler saves
SignalCheckpointNothing(done) == checkpoint_file
SignalCheckpointEmpty(done) ==
    [processed_indices |-> {}, total_count |-> NumSentences]
SignalCheckpoint(done) ==
    [processed_indices |-> done, total_count |-> NumSentences]

InRun == o_pc \in {"l573", "l609", "l623", "l636", "l639", "l653", "l680"}

\* AdvancedTTSProcessor.__init__ (lines 305-341) with a configuration and an
\* input list, in a directory with no checkpoint file or with the checkpoint
\* of another input
RunInit ==
    /\ intelligent_batching \in BOOLEAN
    /\ complexity \in (IF intelligent_batching THEN [Indices -> Scores]
                                               ELSE {[i \in Indices |-> 40]})
    /\ batch_size \in BatchSizes
    /\ checkpoint_interval \in CheckpointIntervals
    /\ checkpoint_file \in {NoCheckpoint, ForeignCheckpoint}
    /\ processed_indices = {}
    /\ o_pc = "idle"
    /\ batches = <<>>
    /\ batch_num = 0
    /\ batch = <<>>
    /\ batch_results = {}
    /\ results_files = {}
    /\ results_errors = {}
    /\ successful = 0
    /\ failed = 0
    /\ dispatch_count = [i \in Indices |-> 0]
    /\ runs = 0
    /\ batches_done = 0
    /\ prev_end = "none"
    /\ prev_completed = {}
    /\ prev_batches = 0
    /\ load_kind = "none"
    /\ load_set = {}

\* lines 568-570, 581-591: process_batch_ultra is entered with fresh results
EnterRun ==
    /\ runs < MaxRuns
    /\ runs' = runs + 1
    /\ o_pc' = "l573"
    /\ batches' = <<>>
    /\ batch_num' = 0
    /\ batch' = <<>>
    /\ batch_results' = {}
    /\ results_files' = {}
    /\ results_errors' = {}
    /\ successful' = 0
    /\ failed' = 0
    /\ dispatch_count' = [i \in Indices |-> 0]
    /\ batches_done' = 0
    /\ load_kind' = "none"
    /\ load_set' = {}

\* process_batch_ultra is called on the processor as it is: first after
\* construction, or again after an earlier run returned
BeginRun ==
    /\ o_pc \in {"idle", "returned"}
    /\ EnterRun
    /\ prev_end' = IF o_pc = "returned" THEN "returned" ELSE prev_end
    /\ UNCHANGED <<runConfig, checkpoint_file, processed_indices,
                   prev_completed, prev_batches, runOthers>>

\* after the process ended (sys.exit of line 348, or a crash) a new process
\* builds a new processor (line 337: processed_indices = set()) and runs
Restart ==
    /\ o_pc \in {"exited", "crashed"}
    /\ EnterRun
    /\ processed_indices' = {}
    /\ UNCHANGED <<runConfig, checkpoint_file, runPrev, runOthers>>

\* lines 572-579: load the checkpoint, resume from it or clear it
LoadCheckpoint ==
    /\ o_pc = "l573"
    /\ IF CheckpointUsable(load_checkpoint)
          THEN /\ processed_indices' = load_checkpoint.processed_indices
               /\ load_kind' = "resumed"
               /\ load_set' = load_checkpoint.processed_indices
               /\ UNCHANGED checkpoint_file
          ELSE /\ checkpoint_file' = clear_checkpoint(checkpoint_file)
               /\ load_kind' = "fresh"
               /\ load_set' = {}
               /\ UNCHANGED processed_indices
    /\ o_pc' = "l609"
    /\ UNCHANGED <<runConfig, runLocals, runResults, dispatch_count, runs,
                   batches_done, runPrev, runOthers>>

\* lines 609-620: plan the batches over the whole input list
PlanBatches ==
    /\ o_pc = "l609"
    /\ batches' = IF intelligent_batching
                     THEN create_optimized_batches(complexity, batch_size)
                     ELSE SimpleBatches(1, NumSentences, batch_size)
    /\ o_pc' = "l623"
    /\ UNCHANGED <<runConfig, checkpoint_file, processed_indices, batch_num,
                   batch, batch_results, runResults, dispatch_count, runs,
                   batches_done, runPrev, runLoad, runOthers>>

\* lines 623-633: the next batch, less what is processed already; an empty
\* rest skips the batch (continue), the end of the list leaves the loop
NextBatch ==
    /\ o_pc = "l623"
    /\ IF batch_num = Len(batches)
          THEN /\ o_pc' = "l680"
               /\ UNCHANGED <<batch_num, batch>>
          ELSE /\ batch_num' = batch_num + 1
               /\ batch' = FilterBatch(batches[batch_num + 1], processed_indices)
               /\ o_pc' = IF batch' = <<>> THEN "l623" ELSE "l636"
    /\ UNCHANGED <<runConfig, checkpoint_file, processed_indices, batches,
                   batch_results, runResults, dispatch_count, runs,
                   batches_done, runPrev, runLoad, runOthers>>

\* line 636: process_batch_ultra_async returns one result per item
ProcessBatch ==
    /\ o_pc = "l636"
    /\ \E ok \in SUBSET Range(batch) :
          batch_results' =
              {<<i, IF i \in ok THEN "success" ELSE "failed">> : i \in Range(batch)}
    /\ dispatch_count' = [i \in Indices |->
                            IF i \in Range(batch) THEN dispatch_count[i] + 1
                                                  ELSE dispatch_count[i]]
    /\ o_pc' = "l639"
    /\ UNCHANGED <<runConfig, checkpoint_file, processed_indices, batches,
                   batch_num, batch, runResults, runs, batches_done, runPrev, runLoad,
                   runOthers>>

\* lines 639-647: merge one result of the batch; after the last one the
\* batch is done
MergeResult ==
    /\ o_pc = "l639"
    /\ \E r \in batch_results :
          /\ batch_results' = batch_results \ {r}
          /\ IF r[2] = "success"
                THEN /\ successful' = successful + 1
                     /\ results_files' = results_files \cup {r[1]}
                     /\ processed_indices' = processed_indices \cup {r[1]}
                     /\ UNCHANGED <<failed, results_errors>>
                ELSE /\ failed' = failed + 1
                     /\ results_errors' = results_errors \cup {r[1]}
                     /\ UNCHANGED <<successful, results_files, processed_indices>>
    /\ o_pc' = IF batch_results' = {} THEN "l653" ELSE "l639"
    /\ batches_done' = IF batch_results' = {} THEN batches_done + 1
                                              ELSE batches_done
    /\ UNCHANGED <<runConfig, checkpoint_file, batches, batch_num, batch,
                   dispatch_count, runs, runPrev, runLoad, runOthers>>

\* lines 652-659 and save_checkpoint (224-232): the periodic checkpoint
PeriodicCheckpoint ==
    /\ o_pc = "l653"
    /\ checkpoint_file' =
          IF CheckpointDue(batch_num)
             THEN [processed_indices |-> processed_indices,
                   total_count |-> NumSentences]
             ELSE checkpoint_file
    /\ o_pc' = "l623"
    /\ UNCHANGED <<runConfig, processed_indices, runLocals, runResults,
                   dispatch_count, runs, batches_done, runPrev, runLoad, runOthers>>

\* lines 670-683 and clear_checkpoint (247-250): summary, clear, return
FinishRun ==
    /\ o_pc = "l680"
    /\ checkpoint_file' = clear_checkpoint(checkpoint_file)
    /\ o_pc' = "returned"
    /\ UNCHANGED <<runConfig, processed_indices, runLocals, runResults,
                   dispatch_count, runs, batches_done, runPrev, runLoad, runOthers>>

\* _signal_handler (lines 343-348): save the checkpoint, sys.exit(0)
Signal ==
    /\ InRun
    /\ checkpoint_file' = SignalCheckpoint(processed_indices)
    /\ o_pc' = "exited"
    /\ prev_end' = "signal"
    /\ prev_completed' = processed_indices
    /\ prev_batches' = batches_done
    /\ UNCHANGED <<runConfig, processed_indices, runLocals, runResults,
                   dispatch_count, runs, batches_done, runLoad,
                   runOthers>>

\* the process dies during a run (kill -9, power loss): nothing is saved
Crash ==
    /\ InRun
    /\ o_pc' = "crashed"
    /\ prev_end' = "crash"
    /\ prev_completed' = processed_indices
    /\ prev_batches' = batches_done
    /\ UNCHANGED <<runConfig, checkpoint_file, processed_indices, runLocals,
                   runResults, dispatch_count, runs, batches_done, runLoad,
                   runOthers>>

NextRun ==
    \/ BeginRun
    \/ Restart
    \/ LoadCheckpoint
    \/ PlanBatches
    \/ NextBatch
    \/ ProcessBatch
    \/ MergeResult
    \/ PeriodicCheckpoint
    \/ FinishRun
    \/ Signal
    \/ Crash

(***************************************************************************)
(* CheckpointManager (tts_batch_processor.py:218-250) and its file         *)
(*                                                                         *)
(* The text of the file is a sequence of integers: OpenBrace, the elements *)
(* of list(processed_indices) in the order of the list, ListEnd, the value *)
(* of total_count, CloseBrace.  The timestamp is left out: load_checkpoint *)
(* does not read it.  open(..., 'w') creates or truncates the file; what   *)
(* json.dump writes reaches the file front to back, and a process that     *)
(* dies loses what has not reached it.                                     *)
(***************************************************************************)
OpenBrace == -1
ListEnd == -2
CloseBrace == -3

SavedSets == SUBSET (1..MaxIndex)
SavedCounts == 0..MaxIndex
NoFile == [exists |-> FALSE, text |-> <<>>]

\* line 227: list(processed_indices), in whatever order the set iterates
Lists(P) ==
    {l \in [1..Cardinality(P) -> P] : \A i, j \in DOMAIN l : i # j => l[i] # l[j]}

\* lines 226-232: the text json.dump writes for (list, total_count)
JsonDump(l, n) == <<OpenBrace>> \o l \o <<ListEnd, n, CloseBrace>>

\* line 241: json.load accepts a complete document only
JsonValid(text) ==
    /\ Len(text) >= 4
    /\ text[1] = OpenBrace
    /\ text[Len(text)] = CloseBrace
    /\ text[Len(text) - 2] = ListEnd
    /\ \A j \in 2..(Len(text) - 3) : text[j] >= 0
    /\ text[Len(text) - 1] >= 0

\* line 242: set(checkpoint_data['processed_indices']) and total_count
JsonDecode(text) ==
    [processed_indices |-> {text[j] : j \in 2..(Len(text) - 3)},
     total_count |-> text[Len(text) - 1]]

\* load_checkpoint (lines 234-245): <<how it ends, what it returns>>
LoadFromFileNoExcept(f) ==
    IF ~f.exists THEN <<"returned", NoCheckpoint>>
    ELSE IF JsonValid(f.text) THEN <<"returned", JsonDecode(f.text)>>
    ELSE <<"raised", NoCheckpoint>>
LoadFromFile(f) ==
    IF ~f.exists THEN <<"returned", NoCheckpoint>>
    ELSE IF JsonValid(f.text) THEN <<"returned", JsonDecode(f.text)>>
    ELSE <<"returned", NoCheckpoint>>

\* a CheckpointManager in a directory with no checkpoint file
CkptInit ==
    /\ ck_file = NoFile
    /\ ck_pc = "idle"
    /\ ck_arg = NoCheckpoint
    /\ ck_buffer = <<>>
    /\ ck_before = NoFile
    /\ ck_ret = "none"
    /\ ck_loaded = NoCheckpoint
    /\ ck_last = [op |-> "none", arg |-> NoCheckpoint]

\* save_checkpoint, lines 226-231: build the data, open the file for writing
SaveOpen(P, n) ==
    /\ ck_pc = "idle"
    /\ ck_pc' = "l232"
    /\ ck_arg' = [processed_indices |-> P, total_count |-> n]
    /\ \E l \in Lists(P) : ck_buffer' = JsonDump(l, n)
    /\ ck_before' = ck_file
    /\ ck_file' = [exists |-> TRUE, text |-> <<>>]
    /\ ck_ret' = "none"
    /\ ck_loaded' = NoCheckpoint
    /\ UNCHANGED <<ck_last, ckptOthers>>

\* line 232: some more of the text reaches the file
SaveWrite ==
    /\ ck_pc = "l232"
    /\ ck_buffer # <<>>
    /\ ck_file' = [ck_file EXCEPT !.text = Append(@, Head(ck_buffer))]
    /\ ck_buffer' = Tail(ck_buffer)
    /\ UNCHANGED <<ck_pc, ck_arg, ck_before, ck_ret, ck_loaded, ck_last,
                   ckptOthers>>

\* the end of the with block of line 231: the file is closed, save returns
SaveClose ==
    /\ ck_pc = "l232"
    /\ ck_buffer = <<>>
    /\ ck_pc' = "idle"
    /\ ck_last' = [op |-> "save", arg |-> ck_arg]
    /\ ck_arg' = NoCheckpoint
    /\ ck_before' = NoFile
    /\ UNCHANGED <<ck_file, ck_buffer, ck_ret, ck_loaded, ckptOthers>>

\* the process dies inside save_checkpoint: the file keeps what reached it
CrashInSave ==
    /\ ck_pc = "l232"
    /\ ck_pc' = "crashed"
    /\ ck_buffer' = <<>>
    /\ UNCHANGED <<ck_file, ck_arg, ck_before, ck_ret, ck_loaded, ck_last,
                   ckptOthers>>

\* a new process constructs a CheckpointManager on the same file (line 222)
Reconstruct ==
    /\ ck_pc = "crashed"
    /\ ck_pc' = "idle"
    /\ ck_last' = [op |-> "crash", arg |-> ck_arg]
    /\ ck_arg' = NoCheckpoint
    /\ ck_before' = NoFile
    /\ UNCHANGED <<ck_file, ck_buffer, ck_ret, ck_loaded, ckptOthers>>

\* load_checkpoint (lines 234-245)
Load ==
    /\ ck_pc = "idle"
    /\ ck_ret' = LoadFromFile(ck_file)[1]
    /\ ck_loaded' = LoadFromFile(ck_file)[2]
    /\ UNCHANGED <<ck_file, ck_pc, ck_arg, ck_buffer, ck_before, ck_last,
                   ckptOthers>>

\* clear_checkpoint (lines 247-250)
Clear ==
    /\ ck_pc = "idle"
    /\ ck_file' = NoFile
    /\ ck_last' = [op |-> "clear", arg |-> NoCheckpoint]
    /\ ck_ret' = "none"
    /\ ck_loaded' = NoCheckpoint
    /\ UNCHANGED <<ck_pc, ck_arg, ck_buffer, ck_before, ckptOthers>>

NextCkpt ==
    \/ \E P \in SavedSets : \E n \in SavedCounts : SaveOpen(P, n)
    \/ SaveWrite
    \/ SaveClose
    \/ CrashInSave
    \/ Reconstruct
    \/ Load
    \/ Clear

(***************************************************************************)
(* Batch planning with the sentences                                       *)
(* (tts_batch_processor.py:258-300 and 609-618)                            *)
(*                                                                         *)
(* The planner is applied to a list of sentences and a batch size.  An     *)
(* item of a batch is the pair (index, sentence) of the source.  Scores    *)
(* are in tenths: "a" stands for a sentence of 400 characters with none of *)
(* the counted marks, "b" for one of 700, " b" for the latter with a blank *)
(* in front.                                                               *)
(***************************************************************************)
PlanTexts == {"a", "b", " b"}

\* lines 292-300, in tenths
calculate_complexity_score(sentence) ==
    CASE sentence = "a" -> 400
      [] sentence = "b" -> 700
      [] sentence = " b" -> 701

\* str.strip (line 617)
Strip(sentence) == IF sentence = " b" THEN "b" ELSE sentence

SentenceLists == UNION {[1..n -> PlanTexts] : n \in 0..MaxLen}

RemoveAt(seq, p) == SubSeq(seq, 1, p - 1) \o SubSeq(seq, p + 1, Len(seq))

\* line 270: sort(key = score, reverse = True); the sort is stable, so among
\* equal scores the earlier element stays first
SortScoredKeep(items) == items
RECURSIVE SortScored(_)
SortScored(items) ==
    IF items = <<>> THEN <<>>
    ELSE LET p == CHOOSE p \in 1..Len(items) :
                     /\ \A q \in 1..Len(items) : items[q][3] <= items[p][3]
                     /\ \A q \in 1..(p - 1) : items[q][3] < items[p][3]
         IN  <<items[p]>> \o SortScored(RemoveAt(items, p))

\* line 278: the test that closes the current batch
BatchIsFullGT(current, current_score, size) ==
    Len(current) > size \/ current_score > 10 * ScoreThreshold
BatchIsFull(current, current_score, size) ==
    Len(current) >= size \/ current_score > 10 * ScoreThreshold

\* lines 277-285: the loop over the sorted items; yields <<batches,
\* current_batch>> as they are after the loop
RECURSIVE PackItems(_, _, _, _, _)
PackItems(order, size, done, current, current_score) ==
    IF order = <<>> THEN <<done, current>>
    ELSE LET item == Head(order)
         IN  IF BatchIsFull(current, current_score, size)
                THEN PackItems(Tail(order), size,
                               IF current # <<>> THEN Append(done, current)
                                                 ELSE done,
                               <<<<item[1], item[2]>>>>, item[3])
                ELSE PackItems(Tail(order), size, done,
                               Append(current, <<item[1], item[2]>>),
                               current_score + item[3])

\* lines 264-267: (i + 1, sentence, score) for each sentence
ScoredItems(list) ==
    [i \in 1..Len(list) |-> <<i, list[i], calculate_complexity_score(list[i])>>]

\* create_optimized_batches (lines 258-290)
OptimizedBatchesNoFlush(list, size) ==
    IF list = <<>> THEN <<>>
    ELSE PackItems(SortScored(ScoredItems(list)), size, <<>>, <<>>, 0)[1]
OptimizedBatches(list, size) ==
    IF list = <<>> THEN <<>>
    ELSE LET packed == PackItems(SortScored(ScoredItems(list)), size,
                                 <<>>, <<>>, 0)
         IN  IF packed[2] # <<>> THEN Append(packed[1], packed[2])
                                 ELSE packed[1]

\* lines 614-618: the batches made without a batcher, for batch_size >= 1
RECURSIVE SlicedBatches(_, _, _)
SlicedBatches(list, i, size) ==
    IF i >= Len(list) THEN <<>>
    ELSE <<[j \in 1..Min(size, Len(list) - i) |-> <<i + j, Strip(list[i + j])>>]>>
            \o SlicedBatches(list, i + size, size)

\* a list of sentences and a batch size
PlanInit ==
    /\ b_sentences \in SentenceLists
    /\ b_max \in 0..MaxBatch
    /\ b_pc = "input"
    /\ b_batches = <<>>

\* line 611: batches = self.batcher.create_optimized_batches(sentences)
PlanOptimized ==
    /\ b_pc = "input"
    /\ b_batches' = OptimizedBatches(b_sentences, b_max)
    /\ b_pc' = "optimized"
    /\ UNCHANGED <<b_sentences, b_max, planOthers>>

\* lines 613-618: simple batching; range() with a step of 0 raises ValueError
PlanSimple ==
    /\ b_pc = "input"
    /\ IF b_max = 0
          THEN /\ b_pc' = "ValueError"
               /\ UNCHANGED b_batches
          ELSE /\ b_pc' = "simple"
               /\ b_batches' = SlicedBatches(b_sentences, 0, b_max)
    /\ UNCHANGED <<b_sentences, b_max, planOthers>>

NextPlan ==
    \/ PlanOptimized
    \/ PlanSimple

\* no list planned
PlanIdle ==
    /\ b_sentences = <<>>
    /\ b_max = 1
    /\ b_pc = "input"
    /\ b_batches = <<>>

(***************************************************************************)
(* VoiceRotator.get_next_voice (tts_batch_processor.py:111-119)            *)
(*                                                                         *)
(* Every caller calls get_next_voice once.  A voice is its index in        *)
(* available_voices.  The test of line 113, the acquisition of voice_lock, *)
(* line 117, line 118 and the return that releases the lock are steps of   *)
(* their own, so that the lock is what serializes the callers.             *)
(***************************************************************************)
RotCallers == 1..NumRotCallers

\* line 113: the caller goes on to the lock when rotation is enabled
RotatesAlways(c) == TRUE
Rotates(c) == rotation_enabled

\* line 116: the lock can be taken when no one holds it
CanAcquireUnlocked(c) == TRUE
CanAcquire(c) == voice_lock = 0

\* VoiceRotator.__init__ (lines 62-109)
RotInit ==
    /\ rotation_enabled \in BOOLEAN
    /\ cycle_pos = 0
    /\ voice_index = 0
    /\ voice_lock = 0
    /\ v_pc = [c \in RotCallers |-> "idle"]
    /\ v_voice = [c \in RotCallers |-> None]
    /\ v_seen = [c \in RotCallers |-> None]
    /\ v_order = [c \in RotCallers |-> 0]
    /\ acquired = 0

\* lines 113-114: with rotation disabled return available_voices[0]
GetNextVoice(c) ==
    /\ v_pc[c] = "idle"
    /\ IF Rotates(c)
          THEN /\ v_pc' = [v_pc EXCEPT ![c] = "l116"]
               /\ UNCHANGED v_voice
          ELSE /\ v_pc' = [v_pc EXCEPT ![c] = "returned"]
               /\ v_voice' = [v_voice EXCEPT ![c] = 0]
    /\ UNCHANGED <<rotation_enabled, cycle_pos, voice_index, voice_lock,
                   v_seen, v_order, acquired, rotOthers>>

\* line 116: with self.voice_lock
AcquireLock(c) ==
    /\ v_pc[c] = "l116"
    /\ CanAcquire(c)
    /\ voice_lock' = c
    /\ acquired' = acquired + 1
    /\ v_order' = [v_order EXCEPT ![c] = acquired + 1]
    /\ v_pc' = [v_pc EXCEPT ![c] = "l117"]
    /\ UNCHANGED <<rotation_enabled, cycle_pos, voice_index, v_voice, v_seen,
                   rotOthers>>

\* line 117: voice = next(self.voice_cycle)
NextOfCycle(c) ==
    /\ v_pc[c] = "l117"
    /\ v_seen' = [v_seen EXCEPT ![c] = cycle_pos]
    /\ v_voice' = [v_voice EXCEPT ![c] = cycle_pos % NumVoices]
    /\ cycle_pos' = cycle_pos + 1
    /\ v_pc' = [v_pc EXCEPT ![c] = "l118"]
    /\ UNCHANGED <<rotation_enabled, voice_index, voice_lock, v_order,
                   acquired, rotOthers>>

\* lines 118-119: advance current_voice_index, return and release the lock
AdvanceAndReturn(c) ==
    /\ v_pc[c] = "l118"
    /\ voice_index' = (voice_index + 1) % NumVoices
    /\ voice_lock' = 0
    /\ v_pc' = [v_pc EXCEPT ![c] = "returned"]
    /\ UNCHANGED <<rotation_enabled, cycle_pos, v_voice, v_seen, v_order,
                   acquired, rotOthers>>

NextRot ==
    \/ \E c \in RotCallers : GetNextVoice(c)
    \/ \E c \in RotCallers : AcquireLock(c)
    \/ \E c \in RotCallers : NextOfCycle(c)
    \/ \E c \in RotCallers : AdvanceAndReturn(c)

\* VoiceRotator(): rotation enabled (line 62), no caller
RotIdle ==
    /\ RotInit
    /\ rotation_enabled

(***************************************************************************)
(* The worker pool: process_batch_ultra_async (lines 517-566) under the    *)
(* batch loop of process_batch_ultra (lines 623-650)                       *)
(*                                                                         *)
(* The main thread takes the batches in order; for each it makes a         *)
(* semaphore and an executor, submits the items one by one, takes the      *)
(* results as the futures complete, leaves the with block of the executor  *)
(* and merges the results.  A task waits in the queue of the executor for  *)
(* one of its max_workers threads, then for a permit of the semaphore,     *)
(* runs synthesize_sentence_ultra, gives the permit back and is done.      *)
(***************************************************************************)
Running == {i \in Indices : task_pc[i] \in {"l525", "l526"}}
InFlight == {i \in Indices : task_pc[i] = "l526"}
HasResult == {i \in Indices : task_pc[i] \in {"finished", "collected"}}
Started == Running \cup HasResult

\* line 528: a thread of the executor is free to take a task
WorkerFreeAlways(i) == TRUE
WorkerFree(i) == Cardinality(Running) < executor_max_workers

\* line 525: the semaphore has a permit left
PermitFreeAlways(i) == TRUE
PermitFree(i) == semaphore > 0

\* lines 536-566: the loop over as_completed ends when every future of the
\* batch has been taken; the with block of line 528 ends when every task of
\* the executor is done
BatchCollectedAlways(k) == TRUE
BatchCollected(k) == \A i \in Range(planned[k]) : task_pc[i] = "collected"

\* how synthesize_sentence_ultra can end: with a path, with None, or raising
TaskOutcomes == {"filepath", "None", "exception"}

\* lines 540-564: the status of the result made for a future
ResultStatusSuccess(o) == "success"
ResultStatus(o) == IF o = "filepath" THEN "success" ELSE "failed"

\* a configuration and the batches of a run over Indices (lines 613-618)
PoolInit ==
    /\ executor_max_workers \in 1..MaxWorkers
    /\ max_concurrent_requests \in 1..MaxConcurrent
    /\ \E size \in BatchSizes : planned = SimpleBatches(1, NumSentences, size)
    /\ loop_num = 0
    /\ main_pc = "l623"
    /\ task_pc = [i \in Indices |-> "new"]
    /\ semaphore = 0
    /\ task_outcome = [i \in Indices |-> "none"]
    /\ task_results = [i \in Indices |-> <<>>]
    /\ pool_successful = 0
    /\ pool_failed = 0

\* line 623 to line 528: the next batch; a new semaphore and executor
EnterBatch ==
    /\ main_pc = "l623"
    /\ IF loop_num = Len(planned)
          THEN /\ main_pc' = "l680"
               /\ UNCHANGED <<loop_num, semaphore>>
          ELSE /\ loop_num' = loop_num + 1
               /\ semaphore' = max_concurrent_requests
               /\ main_pc' = "l530"
    /\ UNCHANGED <<executor_max_workers, max_concurrent_requests, planned,
                   task_pc, poolOut, poolOthers>>

\* lines 530-533: executor.submit for the next item of the batch
Submit ==
    /\ main_pc = "l530"
    /\ LET new == {i \in Range(planned[loop_num]) : task_pc[i] = "new"}
       IN  IF new = {}
              THEN /\ main_pc' = "l536"
                   /\ UNCHANGED task_pc
              ELSE /\ task_pc' = [task_pc EXCEPT
                          ![CHOOSE i \in new : \A j \in new : i <= j] = "queued"]
                   /\ UNCHANGED main_pc
    /\ UNCHANGED <<executor_max_workers, max_concurrent_requests, planned,
                   loop_num, semaphore, poolOut, poolOthers>>

\* a thread of the executor takes the task: process_with_semaphore begins
StartTask(i) ==
    /\ task_pc[i] = "queued"
    /\ WorkerFree(i)
    /\ task_pc' = [task_pc EXCEPT ![i] = "l525"]
    /\ UNCHANGED <<executor_max_workers, max_concurrent_requests, planned,
                   loop_num, main_pc, semaphore, poolOut, poolOthers>>

\* line 525: with semaphore
AcquirePermit(i) ==
    /\ task_pc[i] = "l525"
    /\ PermitFree(i)
    /\ semaphore' = semaphore - 1
    /\ task_pc' = [task_pc EXCEPT ![i] = "l526"]
    /\ UNCHANGED <<executor_max_workers, max_concurrent_requests, planned,
                   loop_num, main_pc, poolOut, poolOthers>>

\* line 526: synthesize_sentence_ultra returns or raises; the permit is
\* given back and the future is done
FinishTask(i) ==
    /\ task_pc[i] = "l526"
    /\ semaphore' = semaphore + 1
    /\ task_pc' = [task_pc EXCEPT ![i] = "finished"]
    /\ \E o \in TaskOutcomes : task_outcome' = [task_outcome EXCEPT ![i] = o]
    /\ UNCHANGED <<executor_max_workers, max_concurrent_requests, planned,
                   loop_num, main_pc, task_results, pool_successful,
                   pool_failed, poolOthers>>

\* lines 536-564: as_completed yields a future that is done; its result is
\* appended to results
Collect(i) ==
    /\ main_pc = "l536"
    /\ task_pc[i] = "finished"
    /\ task_pc' = [task_pc EXCEPT ![i] = "collected"]
    /\ task_results' = [task_results EXCEPT
                           ![i] = Append(@, ResultStatus(task_outcome[i]))]
    /\ UNCHANGED <<executor_max_workers, max_concurrent_requests, planned,
                   loop_num, main_pc, semaphore, task_outcome,
                   pool_successful, pool_failed, poolOthers>>

\* lines 566 and 639-650: the loop and the with block end, the results are
\* returned and merged
LeaveBatch ==
    /\ main_pc = "l536"
    /\ BatchCollected(loop_num)
    /\ main_pc' = "l623"
    /\ pool_successful' = pool_successful + Cardinality(
           {i \in Range(planned[loop_num]) : "success" \in Range(task_results[i])})
    /\ pool_failed' = pool_failed + Cardinality(
           {i \in Range(planned[loop_num]) : "failed" \in Range(task_results[i])})
    /\ UNCHANGED <<executor_max_workers, max_concurrent_requests, planned,
                   loop_num, task_pc, semaphore, task_outcome,
                   task_results, poolOthers>>

NextPool ==
    \/ EnterBatch
    \/ Submit
    \/ \E i \in Indices : StartTask(i)
    \/ \E i \in Indices : AcquirePermit(i)
    \/ \E i \in Indices : FinishTask(i)
    \/ \E i \in Indices : Collect(i)
    \/ LeaveBatch

\* the default configuration in model units, no run
PoolIdle ==
    /\ executor_max_workers = 1
    /\ max_concurrent_requests = 1
    /\ planned = <<>>
    /\ loop_num = 0
    /\ main_pc = "l680"
    /\ task_pc = [i \in Indices |-> "new"]
    /\ semaphore = 0
    /\ task_outcome = [i \in Indices |-> "none"]
    /\ task_results = [i \in Indices |-> <<>>]
    /\ pool_successful = 0
    /\ pool_failed = 0

(***************************************************************************)
(* ErrorHandler.record_error (error_handler.py:182-203)                    *)
(*                                                                         *)
(* The whole body runs under self.lock, and get_error_stats reads the      *)
(* table under the same lock, so the body is one step of the thread that   *)
(* holds the lock.                                                         *)
(***************************************************************************)
Recorders == 1..NumRecorders
ErrorTypes == {"FuncError", "CircuitBreakerOpenException"}

\* line 202: the number of entries kept per error type
ErrorsKept == 100

\* lines 202-203: if len(errors) > 100: errors = errors[-100:]
KeepAll(errors) == errors
KeepLast(errors) ==
    IF Len(errors) > ErrorsKept
       THEN SubSeq(errors, Len(errors) - ErrorsKept + 1, Len(errors))
       ELSE errors

\* lines 185-203: the table after one more error of a type, whose entry is
\* named n
RecordError(stats, error_type, n) ==
    [stats EXCEPT ![error_type] =
        [count |-> @.count + 1, errors |-> KeepLast(Append(@.errors, n))]]

\* ErrorHandler.__init__ (lines 169-172)
StatsInit ==
    /\ error_stats = [c \in ErrorTypes |-> [count |-> 0, errors |-> <<>>]]
    /\ stats_lock = 0
    /\ rec_pc = [th \in Recorders |-> "idle"]
    /\ rec_arg = [th \in Recorders |-> "FuncError"]
    /\ recorded = [c \in ErrorTypes |-> 0]

InRecord == {th \in Recorders : rec_pc[th] # "idle"}
TotalRecorded == recorded["FuncError"] + recorded["CircuitBreakerOpenException"]

\* a thread calls record_error(error_type, ...)
RecordCall(th, error_type) ==
    /\ rec_pc[th] = "idle"
    /\ TotalRecorded + Cardinality(InRecord) < MaxRecords
    /\ rec_pc' = [rec_pc EXCEPT ![th] = "l184"]
    /\ rec_arg' = [rec_arg EXCEPT ![th] = error_type]
    /\ UNCHANGED <<error_stats, stats_lock, recorded, statsOthers>>

\* line 184: with self.lock
RecordAcquire(th) ==
    /\ rec_pc[th] = "l184"
    /\ stats_lock = 0
    /\ stats_lock' = th
    /\ rec_pc' = [rec_pc EXCEPT ![th] = "l185"]
    /\ UNCHANGED <<error_stats, rec_arg, recorded, statsOthers>>

\* lines 185-203, and the release of the lock
RecordBody(th) ==
    /\ rec_pc[th] = "l185"
    /\ error_stats' = RecordError(error_stats, rec_arg[th],
                                  recorded[rec_arg[th]] + 1)
    /\ recorded' = [recorded EXCEPT ![rec_arg[th]] = @ + 1]
    /\ stats_lock' = 0
    /\ rec_pc' = [rec_pc EXCEPT ![th] = "idle"]
    /\ UNCHANGED <<rec_arg, statsOthers>>

NextStats ==
    \/ \E th \in Recorders : \E c \in ErrorTypes : RecordCall(th, c)
    \/ \E th \in Recorders : RecordAcquire(th)
    \/ \E th \in Recorders : RecordBody(th)

\* the global error_handler as constructed (line 224)
StatsIdle == StatsInit

(***************************************************************************)
(* handle_tts_errors and safe_tts_call (error_handler.py:226-252)          *)
(*                                                                         *)
(* safe_func is func wrapped by handle_tts_errors, that by the breaker     *)
(* 'tts_api', and that by retry_with_backoff(RetryConfig(max_attempts=3,   *)
(* base_delay=1.0)): the function that the retry loop calls at line 139 is *)
(* CircuitBreaker.call.  One thread calls safe_tts_call, so lines 51-56    *)
(* are one step, and state = OPEN implies that last_failure_time is set.   *)
(* The loop of retry_with_backoff is the one of SpecRetry (LoopHead,       *)
(* ReturnResult, HandleError, Sleep), the clock is Tick.  An error of func *)
(* has the type "FuncError".                                               *)
(***************************************************************************)

\* line 246: RetryConfig(max_attempts=3, base_delay=1.0)
SafeMaxAttempts == 3

\* lines 51-56: what CircuitBreaker.call does with the call on entry
AdmitsAlways(st, t_now, lft) == "pass"
Admits(st, t_now, lft) ==
    IF st = "OPEN"
       THEN IF TimeoutElapsed(t_now, lft) THEN "probe" ELSE "fast_fail"
       ELSE "pass"

\* the module is imported: the error handler, the breaker with some
\* configuration, and no call of safe_tts_call yet
SafeInit ==
    /\ s_calls = 0
    /\ func_calls = 0
    /\ s_raised = <<>>
    /\ s_open_since = None

\* the retry configuration of line 246 in model units, the loop not entered
SafeRetryInit ==
    /\ max_attempts = SafeMaxAttempts
    /\ base_delay = 16
    /\ max_delay = 64
    /\ exponential_base = <<2, 1>>
    /\ jitter = TRUE
    /\ attempt = 0
    /\ last_exception = 0
    /\ r_pc = "done"
    /\ call_ok = FALSE
    /\ calls = 0
    /\ slept = <<>>
    /\ r_outcome = "none"
    /\ raised_exc = 0

\* lines 242-252 and 135: safe_tts_call is called and enters the wrapper
SafeCall ==
    /\ r_pc = "done"
    /\ s_calls < MaxSafeCalls
    /\ s_calls' = s_calls + 1
    /\ func_calls' = 0
    /\ s_raised' = <<>>
    /\ s_open_since' = IF state = "OPEN" /\ ~TimeoutElapsed(now, last_failure_time)
                          THEN last_failure_time ELSE None
    /\ attempt' = 0
    /\ last_exception' = 0
    /\ r_pc' = "l137"
    /\ call_ok' = FALSE
    /\ calls' = 0
    /\ slept' = <<>>
    /\ r_outcome' = "none"
    /\ raised_exc' = 0
    /\ UNCHANGED <<retryConfig, cbVars, statsVars, safeOthers>>

\* lines 139 and 51-56: the breaker fails fast, lets the call pass, or
\* becomes HALF_OPEN and lets it pass
SafeEnter ==
    /\ r_pc = "l139"
    /\ IF Admits(state, now, last_failure_time) = "fast_fail"
          THEN /\ calls' = calls + 1
               /\ call_ok' = FALSE
               /\ s_raised' = Append(s_raised, "CircuitBreakerOpenException")
               /\ r_pc' = "l139done"
               /\ UNCHANGED state
          ELSE /\ state' = IF Admits(state, now, last_failure_time) = "probe"
                              THEN "HALF_OPEN" ELSE state
               /\ r_pc' = "l59"
               /\ UNCHANGED <<calls, call_ok, s_raised>>
    /\ UNCHANGED <<retryConfig, attempt, last_exception, slept, r_outcome,
                   raised_exc, failure_count, last_failure_time, streak,
                   cbConfig, now, pc, result, admitted, fresh_open, statsVars,
                   s_calls, func_calls, s_open_since, safeOthers>>

\* lines 59-61, 230-231, 250 and _on_success: func returns
SafeFuncReturns ==
    /\ r_pc = "l59"
    /\ func_calls' = func_calls + 1
    /\ state' = SuccessState(state)
    /\ failure_count' = 0
    /\ streak' = 0
    /\ calls' = calls + 1
    /\ call_ok' = TRUE
    /\ s_raised' = Append(s_raised, "none")
    /\ r_pc' = "l139done"
    /\ UNCHANGED <<retryConfig, attempt, last_exception, slept, r_outcome,
                   raised_exc, last_failure_time, cbConfig, now, pc, result,
                   admitted, fresh_open, statsVars, s_calls, s_open_since,
                   safeOthers>>

\* lines 59, 250, 232-239, 62-64 and _on_failure: func raises,
\* handle_tts_errors records the error and re-raises it, the breaker counts
\* the failure and re-raises it
SafeFuncRaises ==
    /\ r_pc = "l59"
    /\ func_calls' = func_calls + 1
    /\ error_stats' = RecordError(error_stats, "FuncError",
                                  recorded["FuncError"] + 1)
    /\ recorded' = [recorded EXCEPT !["FuncError"] = @ + 1]
    /\ failure_count' = failure_count + 1
    /\ streak' = streak + 1
    /\ last_failure_time' = now
    /\ state' = IF ShouldOpen(failure_count + 1) THEN "OPEN" ELSE state
    /\ calls' = calls + 1
    /\ call_ok' = FALSE
    /\ s_raised' = Append(s_raised, "FuncError")
    /\ r_pc' = "l139done"
    /\ UNCHANGED <<retryConfig, attempt, last_exception, slept, r_outcome,
                   raised_exc, cbConfig, now, pc, result, admitted, fresh_open,
                   stats_lock, rec_pc, rec_arg, s_calls, s_open_since,
                   safeOthers>>

NextSafe ==
    \/ SafeCall
    \/ LoopHead
    \/ SafeEnter
    \/ SafeFuncReturns
    \/ SafeFuncRaises
    \/ ReturnResult
    \/ HandleError
    \/ Sleep
    \/ Tick

\* no call of safe_tts_call
SafeIdle == SafeInit

(***************************************************************************)
(* ErrorHandler.get_circuit_breaker (error_handler.py:174-180)             *)
(*                                                                         *)
(* The method takes no lock: the test of line 176, the construction and    *)
(* the store of line 179, and the read of line 180 are steps between which *)
(* other threads run.  All calls are for one name.                         *)
(***************************************************************************)
Getters == 1..NumGetters

\* ErrorHandler.__init__ (line 170): no breaker for the name
RegInit ==
    /\ circuit_breakers = None
    /\ g_pc = [t \in Getters |-> "idle"]
    /\ g_ret = [t \in Getters |-> None]
    /\ created = 0

\* a thread calls get_circuit_breaker(name)
GetCall(t) ==
    /\ g_pc[t] = "idle"
    /\ g_ret[t] = None
    /\ g_pc' = [g_pc EXCEPT ![t] = "l176"]
    /\ UNCHANGED <<circuit_breakers, g_ret, created, regOthers>>

\* line 176: if name not in self.circuit_breakers
GetTest(t) ==
    /\ g_pc[t] = "l176"
    /\ g_pc' = [g_pc EXCEPT ![t] =
                  IF circuit_breakers = None THEN "l179" ELSE "l180"]
    /\ UNCHANGED <<circuit_breakers, g_ret, created, regOthers>>

\* lines 177-179: self.circuit_breakers[name] = CircuitBreaker(config)
GetCreate(t) ==
    /\ g_pc[t] = "l179"
    /\ created' = created + 1
    /\ circuit_breakers' = created + 1
    /\ g_pc' = [g_pc EXCEPT ![t] = "l180"]
    /\ UNCHANGED <<g_ret, regOthers>>

\* line 180: return self.circuit_breakers[name]
GetReturn(t) ==
    /\ g_pc[t] = "l180"
    /\ g_ret' = [g_ret EXCEPT ![t] = circuit_breakers]
    /\ g_pc' = [g_pc EXCEPT ![t] = "idle"]
    /\ UNCHANGED <<circuit_breakers, created, regOthers>>

NextReg ==
    \/ \E t \in Getters : GetCall(t)
    \/ \E t \in Getters : GetTest(t)
    \/ \E t \in Getters : GetCreate(t)
    \/ \E t \in Getters : GetReturn(t)

\* no call of get_circuit_breaker
RegIdle == RegInit

(***************************************************************************)
(* Specifications: one per part; the other parts are constructed and idle  *)
(***************************************************************************)

\* RetryConfig() defaults in model units (error_handler.py:118-128), nothing
\* running
RetryIdle ==
    /\ max_attempts = 0
    /\ base_delay = 16
    /\ max_delay = 64
    /\ exponential_base = <<2, 1>>
    /\ jitter = FALSE
    /\ attempt = 0
    /\ last_exception = 0
    /\ r_pc = "done"
    /\ call_ok = FALSE
    /\ calls = 0
    /\ slept = <<>>
    /\ r_outcome = "none"
    /\ raised_exc = 0

\* CircuitBreaker(CircuitBreakerConfig()) as constructed, no caller
BreakerIdle ==
    /\ BreakerInit
    /\ failure_threshold = 1
    /\ recovery_timeout = 0

\* a processor with the default configuration and no item
\* (UltraProcessingConfig, lines 136-153)
PipeIdle ==
    /\ sentences = [i \in Items |-> "a"]
    /\ enable_caching = TRUE
    /\ voice_rotation_enabled = TRUE
    /\ retry_attempts = 1
    /\ max_workers = 1
    /\ voice_cycle = 1
    /\ current_voice_index = 0
    /\ t_pc = [i \in Items |-> "done"]
    /\ current_voice = [i \in Items |-> 0]
    /\ syn_attempt = [i \in Items |-> 0]
    /\ cached_file = [i \in Items |-> NoPath]
    /\ cache_db = [k \in Keys |-> NoPath]
    /\ files = {}
    /\ outcome = [i \in Items |-> "none"]
    /\ provider_calls = [i \in Items |-> 0]
    /\ after_success = [i \in Items |-> FALSE]
    /\ any_deleted = FALSE

\* a processor constructed with the default configuration, never run
RunIdle ==
    /\ RunInit
    /\ checkpoint_file = NoCheckpoint
    /\ ~intelligent_batching
    /\ batch_size = 1
    /\ checkpoint_interval = 1

InitCB == BreakerInit /\ RetryIdle /\ PipeIdle /\ RunIdle /\ CkptInit /\ PlanIdle /\ RotIdle
              /\ PoolIdle /\ StatsIdle /\ SafeIdle /\ RegIdle

SpecCB == InitCB /\ [][NextCB]_vars

InitRetry == RetryInit /\ BreakerIdle /\ PipeIdle /\ RunIdle /\ CkptInit /\ PlanIdle /\ RotIdle
              /\ PoolIdle /\ StatsIdle /\ SafeIdle /\ RegIdle

SpecRetry == InitRetry /\ [][NextRetry]_vars

InitPipe == PipeInit /\ BreakerIdle /\ RetryIdle /\ RunIdle /\ CkptInit /\ PlanIdle /\ RotIdle
              /\ PoolIdle /\ StatsIdle /\ SafeIdle /\ RegIdle

SpecPipe == InitPipe /\ [][NextPipe]_vars

SpecPipeFaults == InitPipe /\ [][NextPipeFaults]_vars

InitPipeWarm ==
    /\ PipeWarmInit
    /\ BreakerIdle /\ RetryIdle /\ RunIdle /\ CkptInit /\ PlanIdle /\ RotIdle
    /\ PoolIdle /\ StatsIdle /\ SafeIdle /\ RegIdle

SpecPipeWarm == InitPipeWarm /\ [][NextPipe]_vars

InitRun == RunInit /\ BreakerIdle /\ RetryIdle /\ PipeIdle /\ CkptInit /\ PlanIdle /\ RotIdle
              /\ PoolIdle /\ StatsIdle /\ SafeIdle /\ RegIdle

SpecRun == InitRun /\ [][NextRun]_vars

InitCkpt == CkptInit /\ BreakerIdle /\ RetryIdle /\ PipeIdle /\ RunIdle /\ PlanIdle /\ RotIdle
              /\ PoolIdle /\ StatsIdle /\ SafeIdle /\ RegIdle

SpecCkpt == InitCkpt /\ [][NextCkpt]_vars

InitPlan ==
    /\ PlanInit
    /\ BreakerIdle /\ RetryIdle /\ PipeIdle /\ RunIdle /\ CkptInit /\ RotIdle
    /\ PoolIdle /\ StatsIdle /\ SafeIdle /\ RegIdle

SpecPlan == InitPlan /\ [][NextPlan]_vars

InitRot ==
    /\ RotInit
    /\ BreakerIdle /\ RetryIdle /\ PipeIdle /\ RunIdle /\ CkptInit /\ PlanIdle
    /\ PoolIdle /\ StatsIdle /\ SafeIdle /\ RegIdle

SpecRot == InitRot /\ [][NextRot]_vars

InitPool ==
    /\ PoolInit
    /\ BreakerIdle /\ RetryIdle /\ PipeIdle /\ RunIdle /\ CkptInit /\ PlanIdle
    /\ RotIdle /\ StatsIdle /\ SafeIdle /\ RegIdle

SpecPool == InitPool /\ [][NextPool]_vars

InitStats ==
    /\ StatsInit
    /\ BreakerIdle /\ RetryIdle /\ PipeIdle /\ RunIdle /\ CkptInit /\ PlanIdle
    /\ RotIdle /\ PoolIdle /\ SafeIdle /\ RegIdle

SpecStats == InitStats /\ [][NextStats]_vars

InitSafe ==
    /\ SafeInit /\ SafeRetryInit /\ BreakerInit /\ StatsInit
    /\ PipeIdle /\ RunIdle /\ CkptInit /\ PlanIdle /\ RotIdle /\ PoolIdle
    /\ RegIdle

SpecSafe == InitSafe /\ [][NextSafe]_vars

InitReg ==
    /\ RegInit
    /\ BreakerIdle /\ RetryIdle /\ PipeIdle /\ RunIdle /\ CkptInit /\ PlanIdle
    /\ RotIdle /\ PoolIdle /\ StatsIdle /\ SafeIdle

SpecReg == InitReg /\ [][NextReg]_vars

(***************************************************************************)
(* Claims about the circuit breaker (checked under SpecCB)                 *)
(***************************************************************************)

\* C1: starting CLOSED with failure_threshold = T, the failed call that
\* brings the number of consecutive failures to T or more leaves the breaker
\* OPEN with last_failure_time set; a failed call that leaves the number
\* below T leaves a CLOSED breaker CLOSED, and a CLOSED breaker always has
\* fewer than T consecutive failures behind it.
C1_ThresholdOpens ==
    /\ [](state = "CLOSED" => streak < failure_threshold)
    /\ [][streak' = streak + 1 =>
            IF streak' >= failure_threshold
               THEN state' = "OPEN" /\ last_failure_time' # None
               ELSE state = "CLOSED" => state' = "CLOSED"]_vars

\* C1 witness: two consecutive failures have opened a breaker of threshold 2
C1_Witness ==
    /\ failure_threshold = 2
    /\ streak = 2
    /\ state = "OPEN"
    /\ last_failure_time # None

\* C2: a call whose recovery check is taken while the breaker is OPEN and
\* now - last_failure_time <= recovery_timeout ends with
\* CircuitBreakerOpenException, and a call that ends so never invoked func.
C2_OpenFailsFast ==
    \A t \in Callers :
        /\ fresh_open[t] =>
              pc[t] = "idle" /\ result[t] = "CircuitOpen" /\ admitted[t] = "none"
        /\ result[t] = "CircuitOpen" => admitted[t] = "none"

\* C2 witness: a call was rejected exactly recovery_timeout after the failure
C2_Witness ==
    \E t \in Callers :
        /\ fresh_open[t]
        /\ result[t] = "CircuitOpen"
        /\ recovery_timeout = 1
        /\ state = "OPEN"
        /\ now - last_failure_time = recovery_timeout

\* C3: once the breaker has opened and recovery_timeout has elapsed, at most
\* one caller admitted as a probe (through the HALF_OPEN transition or under
\* HALF_OPEN) has func in flight at any time.
C3_SingleProbe ==
    Cardinality({t \in Callers :
                    pc[t] = "l59" /\ admitted[t] \in {"PROBE", "HALF_OPEN"}}) <= 1

\* C4: a failed call recorded while the breaker is HALF_OPEN leaves it OPEN
\* with last_failure_time refreshed.
C4_ProbeFailureReopens ==
    [][\A t \in Callers :
          (pc[t] = "l59" /\ result'[t] = "func_error" /\ state = "HALF_OPEN")
             => (state' = "OPEN" /\ last_failure_time' = now)]_vars

\* C5: a successful call recorded while the breaker is HALF_OPEN leaves it
\* CLOSED with failure_count = 0 and returns func's result to the caller.
C5_ProbeSuccessCloses ==
    [][\A t \in Callers :
          (pc[t] = "l59" /\ pc'[t] = "idle" /\ result'[t] # "func_error"
              /\ state = "HALF_OPEN")
             => (state' = "CLOSED" /\ failure_count' = 0
                   /\ result'[t] = "returned")]_vars

\* C5 witness: a probe admitted through the HALF_OPEN transition returned and
\* the breaker is CLOSED again
C5_Witness ==
    \E t \in Callers :
        /\ admitted[t] = "PROBE"
        /\ pc[t] = "idle"
        /\ result[t] = "returned"
        /\ state = "CLOSED"
        /\ failure_count = 0
        /\ last_failure_time # None

(***************************************************************************)
(* Claims about retry_with_backoff (checked under SpecRetry)               *)
(***************************************************************************)

NonDecreasing(seq) ==
    \A i \in 1..(Len(seq) - 1) : seq[i] <= seq[i + 1]

\* C6: for max_attempts >= 1, when every call fails func is called exactly
\* max_attempts times and the error of the last call is raised; when call k
\* is the first to return, func is called exactly k times (k <= max_attempts)
\* and the result is returned.
C6_RetryBound ==
    (max_attempts >= 1 /\ r_pc = "done") =>
        /\ r_outcome \in {"returned", "raised"}
        /\ r_outcome = "raised" =>
              calls = max_attempts /\ raised_exc = calls /\ ~call_ok
        /\ r_outcome = "returned" =>
              calls <= max_attempts /\ call_ok /\ last_exception = calls - 1
                 /\ Len(slept) = calls - 1

\* C6 witness: three failing calls under max_attempts = 3, the third error
\* raised
C6_Witness ==
    /\ max_attempts = 3
    /\ r_pc = "done"
    /\ r_outcome = "raised"
    /\ calls = 3
    /\ raised_exc = 3

\* C7 as claimed: for every RetryConfig the delays slept are non-decreasing,
\* each at most max_delay, and max_attempts - 1 of them occur when every call
\* fails.
C7_DelaysAsClaimed ==
    /\ NonDecreasing(slept)
    /\ \A i \in 1..Len(slept) : slept[i] <= max_delay
    /\ (r_pc = "done" /\ r_outcome = "raised") => Len(slept) = max_attempts - 1

\* C7 amended: each delay slept is at most max_delay and max_attempts - 1 of
\* them occur when every call fails; the delays are non-decreasing when
\* jitter is off and exponential_base >= 1.
C7_Delays ==
    /\ (~jitter /\ exponential_base[1] >= exponential_base[2])
          => NonDecreasing(slept)
    /\ \A i \in 1..Len(slept) : slept[i] <= max_delay
    /\ (r_pc = "done" /\ r_outcome = "raised") => Len(slept) = max_attempts - 1

\* C7 witness: without jitter, two growing delays were slept before the third
\* failure, the second one cut to max_delay
C7_Witness ==
    /\ ~jitter
    /\ r_pc = "done"
    /\ r_outcome = "raised"
    /\ max_attempts = 3
    /\ Len(slept) = 2
    /\ slept[1] < slept[2]
    /\ slept[2] = max_delay

(***************************************************************************)
(* Claims about the cache and the item pipeline (checked under SpecPipe)   *)
(***************************************************************************)

\* the provider produced the audio of item i
Synthesized(i) == t_pc[i] = "store" \/ outcome[i] = "generated"

C9_GetCachedAudio ==
    [][\A i \in Items :
          /\ (t_pc[i] = "lookup" /\ t_pc'[i] # "lookup") =>
                /\ cached_file'[i] # NoPath =>
                      /\ cache_db[KeyOf(i)] # NoPath
                      /\ cache_db[KeyOf(i)] \in files
                      /\ cached_file'[i] = cache_db[KeyOf(i)]
                      /\ t_pc'[i] = "copy"
                /\ cache_db[KeyOf(i)] = NoPath =>
                      /\ cached_file'[i] = NoPath
                      /\ cache_db' = cache_db
                      /\ t_pc'[i] = "synth"
                /\ (cache_db[KeyOf(i)] # NoPath /\ cache_db[KeyOf(i)] \notin files)
                      => (cached_file'[i] = NoPath /\ t_pc'[i] = "stale")
          /\ (t_pc[i] = "stale" /\ t_pc'[i] # "stale") =>
                /\ cached_file'[i] = NoPath
                /\ cache_db'[KeyOf(i)] = NoPath
                /\ \A k \in Keys \ {KeyOf(i)} : cache_db'[k] = cache_db[k]
                /\ t_pc'[i] = "synth"]_vars

\* C9 witness: the artifact of a generated item is gone, and an item of the
\* same key has removed the entry and gone on as a miss
C9_Witness ==
    \E i, j \in Items :
        /\ i # j
        /\ outcome[j] = "generated"
        /\ j \notin files
        /\ KeyOf(i) = KeyOf(j)
        /\ t_pc[i] = "synth"
        /\ cached_file[i] = NoPath
        /\ cache_db[KeyOf(i)] = NoPath

(***************************************************************************)
(* Claims about checkpointed runs (checked under SpecRun)                  *)
(***************************************************************************)

\* every index is either one the previous run had completed (and is not
\* dispatched now) or is dispatched exactly once in this run
ResumedExactly ==
    \A i \in Indices :
        \/ i \in prev_completed /\ dispatch_count[i] = 0
        \/ i \notin prev_completed /\ dispatch_count[i] = 1

\* C10 as claimed: when a run that was interrupted by a signal or by a crash
\* after completing at least one batch is restarted with the same input and
\* the restarted run returns, it has left out exactly the indices completed
\* before the interruption and dispatched every other index once.
C10_ResumeAsClaimed ==
    (o_pc = "returned" /\ prev_end \in {"signal", "crash"} /\ prev_batches >= 1)
        => ResumedExactly

\* C10 amended: the same for a run interrupted by a cancellation signal.
C10_ResumeAfterSignal ==
    (o_pc = "returned" /\ prev_end = "signal" /\ prev_batches >= 1)
        => ResumedExactly

\* C10 witness: a run was cancelled with some but not all indices completed,
\* and the restarted run produced the others
C10_Witness ==
    /\ o_pc = "returned"
    /\ prev_end = "signal"
    /\ prev_batches >= 1
    /\ prev_completed # {}
    /\ prev_completed # Indices
    /\ results_files = Indices \ prev_completed

\* C11 (as claimed): a run that finds no checkpoint, or one whose total_count
\* is not the length of the input, has removed the checkpoint when it goes on
\* to plan its batches, and has dispatched every index of 1..N when it
\* returns -- also on a processor that has run before
C11_FreshStartDispatchesAll ==
    /\ (load_kind = "fresh" /\ o_pc = "l609") => checkpoint_file = NoCheckpoint
    /\ (load_kind = "fresh" /\ o_pc = "returned")
           => \A i \in Indices : dispatch_count[i] = 1

\* C12: in a run that loaded a usable checkpoint with processed set P, no
\* index of P is ever dispatched, no index is dispatched twice, and when the
\* run returns every index outside P has been dispatched exactly once
C12_ResumeSkipsProcessed ==
    load_kind = "resumed" =>
        \A i \in Indices :
            /\ i \in load_set => dispatch_count[i] = 0
            /\ dispatch_count[i] <= 1
            /\ (o_pc = "returned" /\ i \notin load_set) => dispatch_count[i] = 1

\* a run resumed from a checkpoint with some but not all indices has returned
C12_Witness ==
    /\ o_pc = "returned"
    /\ load_kind = "resumed"
    /\ load_set # {}
    /\ load_set # Indices
    /\ \E i \in Indices : dispatch_count[i] = 1

(***************************************************************************)
(* Claims about the CheckpointManager (checked under SpecCkpt)             *)
(***************************************************************************)

\* the file holds the complete checkpoint of the arguments a
HoldsCheckpoint(f, a) ==
    /\ f.exists
    /\ \E l \in Lists(a.processed_indices) : f.text = JsonDump(l, a.total_count)

\* C13 (as claimed): when the process has died inside save_checkpoint, the
\* file is either what it was before the save began or the complete
\* checkpoint of the save, never empty or partly written
C13_SaveAtomic ==
    ck_pc = "crashed" =>
        \/ ck_file = ck_before
        \/ HoldsCheckpoint(ck_file, ck_arg)

\* C14: load_checkpoint never raises; it returns (set(), 0) when there is no
\* file (nothing saved yet, or cleared) and when the file is what a save that
\* died left unfinished, and it returns the arguments of the last save when
\* that save ran to its end
C14_LoadCheckpoint ==
    /\ ck_ret # "raised"
    /\ ck_ret = "returned" =>
          CASE ck_last.op \in {"none", "clear"} -> ck_loaded = NoCheckpoint
            [] ck_last.op = "save" -> ck_loaded = ck_last.arg
            [] ck_last.op = "crash" ->
                  IF HoldsCheckpoint(ck_file, ck_last.arg)
                     THEN ck_loaded = ck_last.arg
                     ELSE ck_loaded = NoCheckpoint

\* a load after a completed save of a set of two indices
C14_Witness ==
    /\ ck_ret = "returned"
    /\ ck_last.op = "save"
    /\ Cardinality(ck_loaded.processed_indices) = 2
    /\ ck_loaded.total_count = 2

\* a load of the file a save that died left partly written
C14_WitnessCorrupt ==
    /\ ck_ret = "returned"
    /\ ck_last.op = "crash"
    /\ ck_file.exists
    /\ ck_file.text # <<>>
    /\ ~HoldsCheckpoint(ck_file, ck_last.arg)

(***************************************************************************)
(* Claims about batch planning (checked under SpecPlan)                    *)
(***************************************************************************)

\* the places of the batches where index i stands
PlacesOf(i) ==
    {kj \in (1..Len(b_batches)) \X (1..MaxLen) :
        /\ kj[2] <= Len(b_batches[kj[1]])
        /\ b_batches[kj[1]][kj[2]][1] = i}

\* C15: for a batch size of at least 1 the batches of
\* create_optimized_batches hold every index of the input exactly once, each
\* with the sentence of that index, hold nothing else, and none is empty
C15_BatchesPartition ==
    (b_pc = "optimized" /\ b_max >= 1) =>
        /\ \A i \in 1..Len(b_sentences) : Cardinality(PlacesOf(i)) = 1
        /\ \A k \in 1..Len(b_batches) :
              /\ b_batches[k] # <<>>
              /\ \A j \in 1..Len(b_batches[k]) :
                    /\ b_batches[k][j][1] \in 1..Len(b_sentences)
                    /\ b_batches[k][j][2] = b_sentences[b_batches[k][j][1]]

\* three different sentences planned into more than one batch, the first
\* batch not starting with the first sentence
C15_Witness ==
    /\ b_pc = "optimized"
    /\ b_max = 2
    /\ Len(b_sentences) = 3
    /\ b_sentences[1] # b_sentences[2]
    /\ Len(b_batches) >= 2
    /\ b_batches[1][1][1] # 1

NoBatchExceeds == \A k \in 1..Len(b_batches) : Len(b_batches[k]) <= b_max

\* C16 (as claimed): whatever the configured batch size, no batch of
\* create_optimized_batches or of the simple batching has more items than it
C16_BatchSizeAsClaimed ==
    b_pc \in {"optimized", "simple"} => NoBatchExceeds

\* C16 (amended): for a batch size of at least 1, no batch of
\* create_optimized_batches or of the simple batching has more items than it
C16_BatchSize ==
    (b_pc \in {"optimized", "simple"} /\ b_max >= 1) => NoBatchExceeds

\* a plan with a batch of exactly batch_size = 2 items and a further batch
C16_Witness ==
    /\ b_pc \in {"optimized", "simple"}
    /\ b_max = 2
    /\ Len(b_batches) >= 2
    /\ \E k \in 1..Len(b_batches) : Len(b_batches[k]) = 2

(***************************************************************************)
(* Claims about the VoiceRotator (checked under SpecRot)                   *)
(***************************************************************************)

\* C17: with rotation enabled, the caller that is the k-th to acquire the
\* lock finds the cycle at position k - 1 and returns variant
\* (k - 1) mod V, and no two callers find the cycle at the same position
C17_RotationInLockOrder ==
    rotation_enabled =>
        /\ \A c \in RotCallers :
              v_pc[c] \in {"l118", "returned"} =>
                  /\ v_seen[c] = v_order[c] - 1
                  /\ v_voice[c] = (v_order[c] - 1) % NumVoices
        /\ \A c, d \in RotCallers :
              (c # d /\ v_seen[c] # None /\ v_seen[d] # None)
                  => v_seen[c] # v_seen[d]

\* every caller has returned, more callers than variants, and the caller
\* with the lowest name was not the first to take the lock
C17_Witness ==
    /\ rotation_enabled
    /\ \A c \in RotCallers : v_pc[c] = "returned"
    /\ NumRotCallers > NumVoices
    /\ v_order[1] = NumVoices + 1
    /\ v_voice[1] = 0

C19_ConcurrencyBounds ==
    /\ Cardinality(Running) <= executor_max_workers
    /\ Cardinality(InFlight) <= max_concurrent_requests

\* both limits are met while a further item of the batch is held back: one
\* waits in the queue for a thread, or one on a thread waits for a permit
C19_Witness ==
    /\ Cardinality(Running) = executor_max_workers
    /\ Cardinality(InFlight) = max_concurrent_requests
    /\ \E i \in Indices : task_pc[i] = "queued" \/ task_pc[i] = "l525"

\* the batch of the plan that holds index i
BatchOf(i) == CHOOSE k \in 1..Len(planned) : i \in Range(planned[k])

\* C20: an item of a later batch has started executing only if every item
\* of every earlier batch has produced its result
C20_BatchesInOrder ==
    \A i \in Started : \A j \in Indices :
        BatchOf(j) < BatchOf(i) => j \in HasResult

\* an item of the second batch is running after a first batch of two items
C20_Witness ==
    /\ Len(planned[1]) = 2
    /\ \E i \in Running : BatchOf(i) = 2

\* C21: every item that was dispatched gets exactly one result, 'failed'
\* when synthesize_sentence_ultra returned None or raised and 'success'
\* otherwise; whatever the outcomes, every item of every batch is processed
\* and counted once in the summary by the end of the run
C21_FailuresDoNotAbort ==
    /\ \A i \in Indices :
          /\ Len(task_results[i]) <= 1
          /\ task_pc[i] = "collected" =>
                /\ Len(task_results[i]) = 1
                /\ task_results[i][1] = "failed"
                      <=> task_outcome[i] \in {"None", "exception"}
                /\ task_results[i][1] = "success"
                      <=> task_outcome[i] = "filepath"
    /\ main_pc = "l680" =>
          /\ \A i \in Indices : task_pc[i] = "collected"
          /\ pool_failed =
                Cardinality({i \in Indices : task_outcome[i] # "filepath"})
          /\ pool_successful + pool_failed = NumSentences

\* the run has ended after an item of the first batch raised, another item
\* returned None and a later item succeeded
C21_Witness ==
    /\ main_pc = "l680"
    /\ task_outcome[1] = "exception"
    /\ \E i \in Indices : task_outcome[i] = "None"
    /\ task_outcome[NumSentences] = "filepath"
    /\ pool_successful >= 1
    /\ pool_failed >= 2

(***************************************************************************)
(* The end-to-end scenario (checked under SpecPipe)                        *)
(***************************************************************************)

\* the status process_batch_ultra_async gives an item (lines 541-555) and
\* the counters made of it (lines 641-647)
ItemSucceeded(i) == outcome[i] \in {"hit", "generated"}
SummarySuccessful == Cardinality({i \in Items : ItemSucceeded(i)})
SummaryFailed == Cardinality({i \in Items : ~ItemSucceeded(i)})
CacheEntries == {k \in Keys : cache_db[k] # NoPath}

\* every item is done, the texts are pairwise distinct, caching is enabled,
\* no call of the provider failed and no artifact was deleted from outside
ScenarioDone ==
    /\ \A i \in Items : t_pc[i] = "done"
    /\ \A i, j \in Items : i # j => sentences[i] # sentences[j]
    /\ enable_caching
    /\ ~any_deleted
    /\ \A i \in Items : syn_attempt[i] = 0 /\ outcome[i] # "failed"

C23_ClearedOnReturn ==
    o_pc = "returned" => checkpoint_file = NoCheckpoint

\* a run of at least two batches that saved a checkpoint after each batch
\* has returned
C23_Witness ==
    /\ o_pc = "returned"
    /\ checkpoint_interval = 1
    /\ batches_done >= 2
    /\ checkpoint_file = NoCheckpoint

\* C24: after a signal during a run the process has ended with a checkpoint
\* on storage that holds the processed_indices of the moment of the signal
\* and the length of the input, and nothing is dispatched after the signal
\* until a new process runs
C24_SignalCheckpoints ==
    /\ [](o_pc = "exited" =>
             /\ prev_completed = processed_indices
             /\ checkpoint_file.processed_indices = prev_completed
             /\ checkpoint_file.total_count = NumSentences)
    /\ [][(o_pc = "exited" /\ runs' = runs)
             => dispatch_count' = dispatch_count]_vars

\* a signal has ended a run in which some but not all indices were recorded
C24_Witness ==
    /\ o_pc = "exited"
    /\ batches_done >= 1
    /\ prev_completed # {}
    /\ prev_completed # Indices
    /\ checkpoint_file.processed_indices = prev_completed

(***************************************************************************)
(* Claims about the provider call of an item (checked under SpecPipe)      *)
(***************************************************************************)

\* the step is a call of the provider for item i that raised
ProviderFailed(i) ==
    /\ provider_calls'[i] = provider_calls[i] + 1
    /\ t_pc'[i] # "store"
    /\ outcome'[i] # "generated"

\* C25: the provider is invoked through the breaker: no item invokes the
\* provider while the breaker is OPEN and within recovery_timeout, and every
\* failure of the provider adds one to the breaker's failure_count
C25_ProviderBehindBreaker ==
    [][\A i \in Items :
          /\ (state = "OPEN" /\ ~TimeoutElapsed(now, last_failure_time))
                => provider_calls'[i] = provider_calls[i]
          /\ ProviderFailed(i) => failure_count' = failure_count + 1]_vars

(***************************************************************************)
(* Claims about a failing cache (checked under SpecPipeFaults)             *)
(***************************************************************************)

\* C27: an error of the cache is not fatal to the item: an item whose cache
\* lookup is under way goes on to the copy of the hit or to the provider,
\* and an item whose artifact the provider has just written ends as a
\* success without another call of the provider
C27_CacheErrorsNonFatal ==
    [][\A i \in Items :
          /\ t_pc[i] \in {"lookup", "stale"}
                => t_pc'[i] \in {"lookup", "stale", "copy", "synth"}
          /\ (t_pc[i] = "store" /\ t_pc'[i] # "store")
                => (t_pc'[i] = "done" /\ ItemSucceeded(i)')]_vars

(***************************************************************************)
(* Claims about the breaker's lock (checked under SpecCB)                  *)
(***************************************************************************)

\* C28: callers decide and write under the breaker's lock: the breaker
\* becomes HALF_OPEN only from OPEN with recovery_timeout elapsed since the
\* last failure, and no caller computes the recovery check on a breaker
\* that has been reset in the meantime
C28_ConsistentView ==
    /\ [](\A t \in Callers : result[t] # "TypeError")
    /\ [][(state' = "HALF_OPEN" /\ state # "HALF_OPEN")
             => /\ state = "OPEN"
                /\ last_failure_time # None
                /\ TimeoutElapsed(now, last_failure_time)]_vars

(***************************************************************************)
(* Claims about safe_tts_call (checked under SpecSafe)                     *)
(***************************************************************************)

\* the step ends an attempt of the current call with an error
AttemptFailed == calls' = calls + 1 /\ ~call_ok'

\* C26: every failed attempt inside safe_tts_call, whether func raised or
\* the breaker failed fast, adds exactly one record to error_stats under
\* the type of its error, and no record under another type
C26_EveryFailureRecorded ==
    [][AttemptFailed =>
          \A c \in ErrorTypes :
             /\ error_stats'[c].count = error_stats[c].count
                    + (IF c = s_raised'[calls'] THEN 1 ELSE 0)
             /\ Len(error_stats'[c].errors) = Len(error_stats[c].errors)
                    + (IF c = s_raised'[calls'] THEN 1 ELSE 0)]_vars

\* the call has ended and the breaker was OPEN and within recovery_timeout
\* of its last failure from the start of the call to now
OpenThroughout ==
    /\ s_calls >= 1
    /\ r_pc = "done"
    /\ s_open_since # None
    /\ ~TimeoutElapsed(now, s_open_since)

\* C29: a safe_tts_call during which the breaker is OPEN and within
\* recovery_timeout makes exactly max_attempts attempts, each failing fast,
\* sleeps between them, never calls func, and raises the
\* CircuitBreakerOpenException of the last attempt
C29_OpenCallFailsFast ==
    OpenThroughout =>
        /\ calls = SafeMaxAttempts
        /\ \A a \in 1..calls : s_raised[a] = "CircuitBreakerOpenException"
        /\ func_calls = 0
        /\ Len(slept) = SafeMaxAttempts - 1
        /\ \A k \in 1..Len(slept) : slept[k] > 0
        /\ r_outcome = "raised"
        /\ raised_exc = SafeMaxAttempts
        /\ state = "OPEN"

\* a call that found the breaker OPEN has ended within recovery_timeout
C29_Witness ==
    /\ OpenThroughout
    /\ calls = SafeMaxAttempts
    /\ func_calls = 0
    /\ r_outcome = "raised"

(***************************************************************************)
(* Claims about the error statistics (checked under SpecStats)             *)
(***************************************************************************)

\* C30: whatever threads have called record_error, the entries kept for an
\* error type are at most 100, they are the entries of the last calls for
\* that type in the order of the calls, and count is the number of all
\* calls completed for the type
C30_LastHundred ==
    \A c \in ErrorTypes :
       /\ error_stats[c].count = recorded[c]
       /\ Len(error_stats[c].errors) = Min(recorded[c], ErrorsKept)
       /\ \A j \in 1..Len(error_stats[c].errors) :
             error_stats[c].errors[j] =
                recorded[c] - Len(error_stats[c].errors) + j

\* more than 100 errors of one type were recorded, and one of another type
C30_Witness ==
    /\ recorded["FuncError"] > ErrorsKept
    /\ recorded["CircuitBreakerOpenException"] >= 1
    /\ Len(error_stats["FuncError"].errors) = ErrorsKept
    /\ error_stats["FuncError"].errors[1] = recorded["FuncError"] - ErrorsKept + 1

(***************************************************************************)
(* Claims about the periodic checkpoint and the summary of a run (checked  *)
(* under SpecRun)                                                          *)
(***************************************************************************)

RECURSIVE Flatten(_)
Flatten(bs) == IF bs = <<>> THEN <<>> ELSE Head(bs) \o Flatten(Tail(bs))

ScoreOf(item) == calculate_complexity_score(item[2])

RECURSIVE SumScores(_)
SumScores(b) == IF b = <<>> THEN 0 ELSE ScoreOf(Head(b)) + SumScores(Tail(b))

\* C32: the batches of create_optimized_batches, one after the other, list
\* the items by non-increasing score, items of equal score by increasing
\* index
C32_DescendingScores ==
    b_pc = "optimized" =>
        \A p \in 1..Len(Flatten(b_batches)) :
           \A q \in (p + 1)..Len(Flatten(b_batches)) :
              LET x == Flatten(b_batches)[p]
                  y == Flatten(b_batches)[q]
              IN  /\ ScoreOf(x) >= ScoreOf(y)
                  /\ ScoreOf(x) = ScoreOf(y) => x[1] < y[1]

\* three sentences, the first of the lowest score and the other two of
\* equal score, planned into more than one batch
C32_Witness ==
    /\ b_pc = "optimized"
    /\ b_sentences = <<"a", "b", "b">>
    /\ Len(b_batches) >= 2
    /\ Flatten(b_batches)[1][1] = 2
    /\ Flatten(b_batches)[3][1] = 1

\* every batch but the last has batch_size items or a score sum above the
\* threshold, and no batch had a score sum above it before its last item
ClosedForReason ==
    /\ \A k \in 1..(Len(b_batches) - 1) :
          \/ Len(b_batches[k]) = b_max
          \/ SumScores(b_batches[k]) > 10 * ScoreThreshold
    /\ \A k \in 1..Len(b_batches) :
          b_batches[k] # <<>> =>
             SumScores(SubSeq(b_batches[k], 1, Len(b_batches[k]) - 1))
                <= 10 * ScoreThreshold

C34_FailedAfterAllAttempts ==
    \A i \in Items :
        (t_pc[i] = "done" /\ outcome[i] = "failed")
            => provider_calls[i] = retry_attempts

(***************************************************************************)
(* Claims about get_circuit_breaker (checked under SpecReg)                *)
(***************************************************************************)

\* C35: there is one breaker instance for the name: all calls of
\* get_circuit_breaker(name), concurrent first calls included, return the
\* same instance, and no second instance is constructed
C35_OneInstance ==
    /\ created <= 1
    /\ \A t \in Getters : \A u \in Getters :
          (g_ret[t] # None /\ g_ret[u] # None) => g_ret[t] = g_ret[u]

(***************************************************************************)
(* Claims about the summary and processed_indices (checked under SpecRun)  *)
(***************************************************************************)

Dispatched == {i \in Indices : dispatch_count[i] >= 1}

\* C36 (as claimed): when process_batch_ultra returns, successful + failed
\* is the length of the input and every index of 1..N is in exactly one of
\* results['files'] and results['errors'], in fresh and in resumed runs
C36_SummaryAsClaimed ==
    o_pc = "returned" =>
        /\ successful + failed = NumSentences
        /\ results_files \cap results_errors = {}
        /\ results_files \cup results_errors = Indices

\* C36 (amended): when process_batch_ultra returns, the indices dispatched
\* in the run are each in exactly one of the two lists, successful and
\* failed count the lists; in a run of a new processor the dispatched
\* indices are those outside the processed set of the loaded checkpoint, so
\* successful + failed is the length of the input less the size of that set
C36_Summary ==
    o_pc = "returned" =>
        /\ results_files \cap results_errors = {}
        /\ results_files \cup results_errors = Dispatched
        /\ successful = Cardinality(results_files)
        /\ failed = Cardinality(results_errors)
        /\ prev_end # "returned" =>
              /\ Dispatched = Indices \ load_set
              /\ successful + failed = NumSentences - Cardinality(load_set)
              /\ load_kind = "fresh" => successful + failed = NumSentences

\* a run resumed from a checkpoint by a new processor has returned with a
\* success and a failure
C36_Witness ==
    /\ o_pc = "returned"
    /\ prev_end # "returned"
    /\ load_kind = "resumed"
    /\ load_set # {}
    /\ successful >= 1
    /\ failed >= 1

\* C37: processed_indices holds only indices of 1..N that were in the
\* checkpoint loaded by this run or whose item was a success in this run
C37_ProcessedFromSuccess ==
    /\ processed_indices \subseteq Indices
    /\ processed_indices \subseteq (load_set \cup results_files)

(***************************************************************************)
(* Claims about the breaker's counters (checked under SpecCB)              *)
(***************************************************************************)

\* C38: whenever the breaker is OPEN, failure_count is at least
\* failure_threshold and last_failure_time is set, whatever callers run
\* concurrently
C38_OpenMeansThreshold ==
    state = "OPEN" =>
        /\ failure_count >= failure_threshold
        /\ last_failure_time # None

\* caller t's step ends its call with CircuitBreakerOpenException
Rejected(t) == pc[t] = "l52" /\ pc'[t] = "idle" /\ result'[t] = "CircuitOpen"

\* C39: the call that an OPEN breaker rejects changes none of state,
\* failure_count and last_failure_time, neither when it reads the state nor
\* when it is rejected
C39_RejectedCallWritesNothing ==
    [][\A t \in Callers :
          (Rejected(t) \/ (pc[t] = "idle" /\ pc'[t] = "l52"))
             => /\ state' = state
                /\ failure_count' = failure_count
                /\ last_failure_time' = last_failure_time]_vars

\* a call was rejected by a breaker that had been OPEN for some time
C39_Witness ==
    \E t \in Callers :
        /\ result[t] = "CircuitOpen"
        /\ pc[t] = "idle"
        /\ state = "OPEN"
        /\ last_failure_time # None
        /\ now > last_failure_time
        /\ failure_count >= 1

(***************************************************************************)
(* Claims about the voice of an item (checked under SpecPipeWarm)          *)
(***************************************************************************)

StartedItems == {i \in Items : t_pc[i] # "pending"}

\* C40: each item taken by a thread advances the rotator once, whether it
\* ends as a cache hit or not; the voice it gets then is its voice until it
\* is done, and the entry stored for it has the key of its text and that
\* voice, the key that was looked up
C40_OneVoicePerItem ==
    /\ [](voice_rotation_enabled =>
             /\ voice_cycle = (Cardinality(StartedItems) % NumVoices) + 1
             /\ current_voice_index = Cardinality(StartedItems) % NumVoices)
    /\ [][\A i \in Items :
             /\ (t_pc[i] = "pending" /\ t_pc'[i] # "pending")
                   => current_voice'[i] =
                         (IF voice_rotation_enabled THEN voice_cycle ELSE 1)
             /\ t_pc[i] # "pending" => current_voice'[i] = current_voice[i]
             /\ (t_pc[i] = "lookup" /\ t_pc'[i] = "copy")
                   => cached_file'[i] = cache_db[<<sentences[i], current_voice[i]>>]
             /\ (t_pc[i] = "store" /\ t_pc'[i] = "done")
                   => cache_db' =
                         [cache_db EXCEPT ![<<sentences[i], current_voice[i]>>] = i]
       ]_vars

\* with rotation, one item ended as a cache hit without a call of the
\* provider and another was generated and stored, and the rotator has moved
\* once for each
C40_Witness ==
    /\ voice_rotation_enabled
    /\ \A i \in Items : t_pc[i] = "done"
    /\ \E i \in Items : outcome[i] = "hit" /\ provider_calls[i] = 0
    /\ \E j \in Items : outcome[j] = "generated" /\ cache_db[KeyOf(j)] = j
    /\ current_voice_index = NumItems % NumVoices

====
